---- MODULE Spec2Model ----
(***************************************************************************)
(* A model of the concurrency and state engineering of the attention       *)
(* tracking backend:                                                       *)
(*   - IsolatedCameraProcessor (services/isolated_camera_processor.py):    *)
(*     one worker loop per camera, a single pending slot and a single      *)
(*     result slot, each behind its own lock;                              *)
(*   - ParallelProcessor (services/parallel_processor.py): a staged map    *)
(*     camera id -> frame that a drain takes and fans out to a pool;       *)
(*   - VideoJobManager (services/video_job.py): background jobs moving     *)
(*     pending -> running -> done / error with a progress value;           *)
(*   - PersonTracker (core/tracker.py), VideoRecorder and                  *)
(*     MultiCameraVideoRecorder (services/video_recorder.py) and           *)
(*     HeadPoseEstimator (core/head_pose.py).                              *)
(* Each component has its own specification (SpecCam, SpecFan, SpecJob,    *)
(* SpecTrk, SpecRec, SpecLayout, SpecConf, SpecHist; SpecLife and SpecPipe *)
(* for the camera's thread lifecycle and the jobs' shared pipeline); the   *)
(* variables of the other components stay at their initial value.          *)
(***************************************************************************)
EXTENDS Integers, Sequences, FiniteSets, TLC

(***************************************************************************)
(* Bounds of the model.                                                    *)
(***************************************************************************)
MaxFrames == 2
MaxWorkers == 1
MaxCallers == 1

None == 0

Frames == 1..MaxFrames
Workers == 1..MaxWorkers
Callers == 1..MaxCallers

Range(s) == {s[i] : i \in DOMAIN s}

(***************************************************************************)
(* IsolatedCameraProcessor                                                 *)
(***************************************************************************)
VARIABLES
    is_processing,      \* self.is_processing
    processing_thread,  \* self.processing_thread: None or a worker
    frame_queue,        \* self.frame_queue: a list of submitted frames
    latest_frame,       \* self.latest_frame: None or the frame it annotates
    latest_stats,       \* self.latest_stats: None or the frame it counts
    queue_lock,         \* holder of self.queue_lock (None: free)
    result_lock,        \* holder of self.result_lock (None: free)
    wpc,                \* position of each worker thread in _processing_loop
    frame_data,         \* the local frame_data of each worker
    cpc,                \* position of each caller in start/stop_processing
    nextFrame,          \* the next frame a caller submits
    superseded,         \* frames that were pending when a later submit came
    dequeued,           \* frames a worker popped from the pending slot
    passed,             \* frames passed to pipeline.process_frame
    calls,              \* number of pipeline calls made for each frame
    returned,           \* frames whose pipeline call returned a result
    raised,             \* frames whose pipeline call raised
    inflightAtStop,     \* frames a worker held when a stop was signalled
    stopReturned        \* a stop_processing call has returned, no start since

camVars == <<is_processing, processing_thread, frame_queue, latest_frame,
             latest_stats, queue_lock, result_lock, wpc, frame_data, cpc,
             nextFrame, superseded, dequeued, passed, calls, returned, raised,
             inflightAtStop, stopReturned>>

camHist == <<superseded, dequeued, passed, calls, returned, raised,
             inflightAtStop, stopReturned>>

(***************************************************************************)
(* ParallelProcessor and VideoJobManager state                             *)
(***************************************************************************)
VARIABLES
    pp_frame_queue,     \* ParallelProcessor.frame_queue: {camera_id: frame}
    pp_next,            \* the next frame submitted for parallel processing
    dpc,                \* position of each process_pending_frames call
    frames_to_process,  \* its local frames_to_process
    futures,            \* its futures: camera id -> state of the pool task
    results,            \* its local results
    ret,                \* the map its last call returned
    pp_superseded,      \* staged frames replaced by a later submit
    pp_taken,           \* number of times a drain took each frame
    pp_calls,           \* number of process_frame_parallel calls per frame
    pp_raised           \* frames whose pipeline call raised

fanVars == <<pp_frame_queue, pp_next, dpc, frames_to_process, futures,
             results, ret, pp_superseded, pp_taken, pp_calls, pp_raised>>

VARIABLES
    jobs,               \* the keys of VideoJobManager.jobs
    next_job,           \* the next job id (uuid4: never repeats)
    job_state,          \* job['state']
    progress,           \* job['progress']
    job_error,          \* job['error'] is set
    completed_at,       \* job['completed_at'] is set
    jpc,                \* position of each job's background thread
    total_frames,       \* total_frames as the input reported it
    frame_count,        \* frame_count: the frames read and written so far
    cap_open,           \* the job's VideoCapture is open (not released)
    out_open,           \* the job's VideoWriter is open (not released)
    old,                \* job_age > max_age_seconds holds by now
    clpc,               \* position of the cleanup_old_jobs call
    jobs_to_remove,     \* its local jobs_to_remove
    fault               \* what made the job's thread raise, "none" if nothing

jobVars == <<jobs, next_job, job_state, progress, job_error, completed_at,
             jpc, total_frames, frame_count, cap_open, out_open, old, clpc,
             jobs_to_remove, fault>>

(***************************************************************************)
(* PersonTracker state                                                     *)
(***************************************************************************)
VARIABLES
    tracks,             \* self.tracks: {track_id: [bbox, disappeared, last_seen]}
    next_id,            \* self.next_id
    tr_frame_count,     \* self.frame_count
    last_dets,          \* the bboxes of the detections of the last update call
    last_ids,           \* the ids that call gave them, in input order
    last_new,           \* the ids that call gave to new tracks
    missed,             \* per track: consecutive updates without a match
    ids_since_reset,    \* ids given to new tracks since __init__ / reset
    ids_ever,           \* ids given to new tracks since __init__
    updates_done        \* update calls since __init__

trkVars == <<tracks, next_id, tr_frame_count, last_dets, last_ids, last_new,
             missed, ids_since_reset, ids_ever, updates_done>>

\* VideoRecorder / MultiCameraVideoRecorder (services/video_recorder.py)
VARIABLES
    rec_class,            \* the class of the recorder object, "none" before __init__
    active_recordings,    \* self.active_recordings: {recording_id: recording_info}
    attention_trackers,   \* the keys of self.attention_trackers
    clock,                \* datetime.now(), in whole seconds
    rec_last,             \* the last call on the recorder: its arguments and result
    rec_parity,           \* flips with every call on the recorder
    rec_written,          \* per id: writes of its active session that returned True
    rec_summaries,        \* per id: stop calls that returned a summary since its start
    rec_started,          \* per id: a start call has returned True
    lay_last              \* the last layout computation: its arguments and result

recVars == <<rec_class, active_recordings, attention_trackers, clock, rec_last,
             rec_parity, rec_written, rec_summaries, rec_started, lay_last>>

\* HeadPoseEstimator (core/head_pose.py)
VARIABLES
    pose_history,         \* self.pose_history: {person_id: [(yaw, pitch), ...]}
    attention_confidence, \* self.attention_confidence: {person_id: [score, ...]}
    hp_last,              \* the last call on the estimator: its arguments and result
    hp_calls              \* per method and identity: the samples of all calls so far

hpVars == <<pose_history, attention_confidence, hp_last, hp_calls>>

(***************************************************************************)
(* One AttentionPipeline shared by the jobs of a VideoJobManager           *)
(***************************************************************************)
VARIABLES
    pj_pc,       \* per job thread: its position in _process_video
    pj_frames,   \* history: the detection lists of the job's frames so far
    pj_ids       \* history: the ids the pipeline returned for those frames

pipeVars == <<pj_pc, pj_frames, pj_ids>>

(***************************************************************************)
(* The lifecycle of one IsolatedCameraProcessor: its flag, its thread      *)
(* handle and the threads that run _processing_loop                        *)
(***************************************************************************)
VARIABLES
    lf_is_processing,  \* self.is_processing
    lf_thread,         \* self.processing_thread: None or a loop thread
    lf_loop,           \* per loop thread: its position in _processing_loop
    lf_pc              \* per caller: its position in start / stop_processing

lifeVars == <<lf_is_processing, lf_thread, lf_loop, lf_pc>>

(***************************************************************************)
(* The locks held at the accesses to the three shared maps                 *)
(***************************************************************************)
VARIABLES
    map_access   \* history: the last access to self.tracks, self.jobs or
                 \* self.active_recordings and the locks its thread held

vars == <<camVars, fanVars, jobVars, trkVars, recVars, hpVars, pipeVars,
          lifeVars, map_access>>

\* an access to one of the maps by a thread that holds the given locks
Access(map, locks) == [map |-> map, locks |-> locks]

InitAccess == map_access = Access("none", {})

InitCam ==
    /\ is_processing = FALSE
    /\ processing_thread = None
    /\ frame_queue = <<>>
    /\ latest_frame = None
    /\ latest_stats = None
    /\ queue_lock = None
    /\ result_lock = None
    /\ wpc = [w \in Workers |-> "unstarted"]
    /\ frame_data = [w \in Workers |-> None]
    /\ cpc = [c \in Callers |-> "idle"]
    /\ nextFrame = 1
    /\ superseded = {}
    /\ dequeued = {}
    /\ passed = {}
    /\ calls = [f \in Frames |-> 0]
    /\ returned = {}
    /\ raised = {}
    /\ inflightAtStop = {}
    /\ stopReturned = FALSE

\* threading.Thread.is_alive(): started and not yet finished
is_alive(w) == wpc[w] \notin {"unstarted", "exited"}

\* line 64: self.processing_thread and self.processing_thread.is_alive()
thread_alive ==
    IF processing_thread = None THEN FALSE ELSE is_alive(processing_thread)

\* the frames a worker has popped and not finished with
Holding(w) == wpc[w] \in {"call", "process", "acq_r", "write"}

\* ---- start_processing ----------------------------------------------------

\* line 46: if self.is_processing: return
StartCheck(c) ==
    /\ cpc[c] = "idle"
    /\ Cardinality({w \in Workers : wpc[w] = "unstarted"})
         > Cardinality({d \in Callers : cpc[d] \in {"start_set", "start_spawn"}})
    /\ cpc' = [cpc EXCEPT ![c] = IF is_processing THEN "idle" ELSE "start_set"]
    /\ UNCHANGED <<pipeVars, lifeVars>>
    /\ UNCHANGED map_access
    /\ UNCHANGED <<fanVars, jobVars, trkVars, recVars, hpVars,
                   is_processing, processing_thread, frame_queue, latest_frame,
                   latest_stats, queue_lock, result_lock, wpc, frame_data,
                   nextFrame, camHist>>

\* line 49: self.is_processing = True
StartSet(c) ==
    /\ cpc[c] = "start_set"
    /\ is_processing' = TRUE
    /\ stopReturned' = FALSE
    /\ cpc' = [cpc EXCEPT ![c] = "start_spawn"]
    /\ UNCHANGED <<pipeVars, lifeVars>>
    /\ UNCHANGED map_access
    /\ UNCHANGED <<fanVars, jobVars, trkVars, recVars, hpVars,
                   processing_thread, frame_queue, latest_frame, latest_stats,
                   queue_lock, result_lock, wpc, frame_data, nextFrame,
                   superseded, dequeued, passed, calls, returned, raised,
                   inflightAtStop>>

\* lines 50-54: create the thread object, keep it, start it
StartSpawn(c) ==
    /\ cpc[c] = "start_spawn"
    /\ \E w \in Workers :
        /\ wpc[w] = "unstarted"
        /\ \A v \in Workers : v < w => wpc[v] # "unstarted"
        /\ processing_thread' = w
        /\ wpc' = [wpc EXCEPT ![w] = "test"]
    /\ cpc' = [cpc EXCEPT ![c] = "idle"]
    /\ UNCHANGED <<pipeVars, lifeVars>>
    /\ UNCHANGED map_access
    /\ UNCHANGED <<fanVars, jobVars, trkVars, recVars, hpVars,
                   is_processing, frame_queue, latest_frame, latest_stats,
                   queue_lock, result_lock, frame_data, nextFrame, camHist>>

\* ---- stop_processing -----------------------------------------------------

\* line 59: if not self.is_processing: return
StopCheck(c) ==
    /\ cpc[c] = "idle"
    /\ is_processing
    /\ cpc' = [cpc EXCEPT ![c] = "stop_set"]
    /\ UNCHANGED <<pipeVars, lifeVars>>
    /\ UNCHANGED map_access
    /\ UNCHANGED <<fanVars, jobVars, trkVars, recVars, hpVars,
                   is_processing, processing_thread, frame_queue, latest_frame,
                   latest_stats, queue_lock, result_lock, wpc, frame_data,
                   nextFrame, camHist>>

\* line 62: self.is_processing = False
StopSet(c) ==
    /\ cpc[c] = "stop_set"
    /\ is_processing' = FALSE
    /\ inflightAtStop' = inflightAtStop \cup
                           {frame_data[w] : w \in {v \in Workers : Holding(v)}}
    /\ cpc' = [cpc EXCEPT ![c] = "stop_join"]
    /\ UNCHANGED <<pipeVars, lifeVars>>
    /\ UNCHANGED map_access
    /\ UNCHANGED <<fanVars, jobVars, trkVars, recVars, hpVars,
                   processing_thread, frame_queue, latest_frame, latest_stats,
                   queue_lock, result_lock, wpc, frame_data, nextFrame,
                   superseded, dequeued, passed, calls, returned, raised,
                   stopReturned>>

\* lines 64-65, the thread is absent or finished, or join() returns because
\* the thread finished
StopJoinReturns(c) ==
    /\ cpc[c] = "stop_join"
    /\ ~thread_alive
    /\ cpc' = [cpc EXCEPT ![c] = "stop_clear_queue"]
    /\ UNCHANGED <<pipeVars, lifeVars>>
    /\ UNCHANGED map_access
    /\ UNCHANGED <<fanVars, jobVars, trkVars, recVars, hpVars,
                   is_processing, processing_thread, frame_queue, latest_frame,
                   latest_stats, queue_lock, result_lock, wpc, frame_data,
                   nextFrame, camHist>>

\* line 65: join(timeout=2.0) gives up while the thread is still alive
StopJoinTimeout(c) ==
    /\ cpc[c] = "stop_join"
    /\ thread_alive
    /\ cpc' = [cpc EXCEPT ![c] = "stop_clear_queue"]
    /\ UNCHANGED <<pipeVars, lifeVars>>
    /\ UNCHANGED map_access
    /\ UNCHANGED <<fanVars, jobVars, trkVars, recVars, hpVars,
                   is_processing, processing_thread, frame_queue, latest_frame,
                   latest_stats, queue_lock, result_lock, wpc, frame_data,
                   nextFrame, camHist>>

\* lines 68-69: with self.queue_lock: self.frame_queue.clear()
StopClearQueue(c) ==
    /\ cpc[c] = "stop_clear_queue"
    /\ queue_lock = None
    /\ frame_queue' = <<>>
    /\ cpc' = [cpc EXCEPT ![c] = "stop_clear_result"]
    /\ UNCHANGED <<pipeVars, lifeVars>>
    /\ UNCHANGED map_access
    /\ UNCHANGED <<fanVars, jobVars, trkVars, recVars, hpVars,
                   is_processing, processing_thread, latest_frame, latest_stats,
                   queue_lock, result_lock, wpc, frame_data, nextFrame,
                   camHist>>

\* lines 71-75: with self.result_lock: clear the result; return
StopClearResult(c) ==
    /\ cpc[c] = "stop_clear_result"
    /\ result_lock = None
    /\ latest_frame' = None
    /\ latest_stats' = None
    /\ stopReturned' = ~is_processing
    /\ cpc' = [cpc EXCEPT ![c] = "idle"]
    /\ UNCHANGED <<pipeVars, lifeVars>>
    /\ UNCHANGED map_access
    /\ UNCHANGED <<fanVars, jobVars, trkVars, recVars, hpVars,
                   is_processing, processing_thread, frame_queue, queue_lock,
                   result_lock, wpc, frame_data, nextFrame, superseded,
                   dequeued, passed, calls, returned, raised, inflightAtStop>>

\* ---- submit_frame / get_latest_result -------------------------------------

\* line 88: the value submit_frame gives the pending slot
SubmitQueue_Append(q, f) == Append(q, f)

SubmitQueue(q, f) == <<f>>

\* lines 86-93: with self.queue_lock: self.frame_queue = [{...}]
SubmitFrame ==
    /\ nextFrame <= MaxFrames
    /\ queue_lock = None
    /\ frame_queue' = SubmitQueue(frame_queue, nextFrame)
    /\ superseded' = superseded \cup Range(frame_queue)
    /\ nextFrame' = nextFrame + 1
    /\ UNCHANGED <<pipeVars, lifeVars>>
    /\ UNCHANGED map_access
    /\ UNCHANGED <<fanVars, jobVars, trkVars, recVars, hpVars,
                   is_processing, processing_thread, latest_frame, latest_stats,
                   queue_lock, result_lock, wpc, frame_data, cpc, dequeued,
                   passed, calls, returned, raised, inflightAtStop,
                   stopReturned>>

\* lines 102-105: what get_latest_result returns in the current state
get_latest_result ==
    IF latest_frame # None /\ latest_stats # None
    THEN <<latest_frame, latest_stats>>
    ELSE <<None, None>>

\* ---- _processing_loop ------------------------------------------------------

\* line 109: while self.is_processing
WorkerTest(w) ==
    /\ wpc[w] = "test"
    /\ wpc' = [wpc EXCEPT ![w] = IF is_processing THEN "acq_q" ELSE "exited"]
    /\ frame_data' = [frame_data EXCEPT ![w] = None]
    /\ UNCHANGED <<pipeVars, lifeVars>>
    /\ UNCHANGED map_access
    /\ UNCHANGED <<fanVars, jobVars, trkVars, recVars, hpVars,
                   is_processing, processing_thread, frame_queue, latest_frame,
                   latest_stats, queue_lock, result_lock, cpc, nextFrame,
                   camHist>>

\* line 113: with self.queue_lock (acquire)
WorkerAcquireQueue(w) ==
    /\ wpc[w] = "acq_q"
    /\ queue_lock = None
    /\ queue_lock' = w
    /\ wpc' = [wpc EXCEPT ![w] = "pop"]
    /\ UNCHANGED <<pipeVars, lifeVars>>
    /\ UNCHANGED map_access
    /\ UNCHANGED <<fanVars, jobVars, trkVars, recVars, hpVars,
                   is_processing, processing_thread, frame_queue, latest_frame,
                   latest_stats, result_lock, frame_data, cpc, nextFrame,
                   camHist>>

\* lines 114-119: pop the pending frame if there is one, release the lock;
\* with no frame, sleep 10ms and go back to the loop test
WorkerPop_KeepLock(w) ==
    /\ wpc[w] = "pop"
    /\ queue_lock = w
    /\ IF frame_queue # <<>>
       THEN /\ frame_data' = [frame_data EXCEPT ![w] = Head(frame_queue)]
            /\ frame_queue' = Tail(frame_queue)
            /\ dequeued' = dequeued \cup {Head(frame_queue)}
            /\ wpc' = [wpc EXCEPT ![w] = "call"]
            /\ queue_lock' = w
       ELSE /\ UNCHANGED <<frame_data, frame_queue, dequeued>>
            /\ wpc' = [wpc EXCEPT ![w] = "test"]
            /\ queue_lock' = None
    /\ UNCHANGED <<pipeVars, lifeVars>>
    /\ UNCHANGED map_access
    /\ UNCHANGED <<fanVars, jobVars, trkVars, recVars, hpVars,
                   is_processing, processing_thread, latest_frame, latest_stats,
                   result_lock, cpc, nextFrame, superseded, passed, calls,
                   returned, raised, inflightAtStop, stopReturned>>

WorkerPop_Peek(w) ==
    /\ wpc[w] = "pop"
    /\ queue_lock = w
    /\ IF frame_queue # <<>>
       THEN /\ frame_data' = [frame_data EXCEPT ![w] = Head(frame_queue)]
            /\ frame_queue' = frame_queue
            /\ dequeued' = dequeued \cup {Head(frame_queue)}
            /\ wpc' = [wpc EXCEPT ![w] = "call"]
       ELSE /\ UNCHANGED <<frame_data, frame_queue, dequeued>>
            /\ wpc' = [wpc EXCEPT ![w] = "test"]
    /\ queue_lock' = None
    /\ UNCHANGED <<pipeVars, lifeVars>>
    /\ UNCHANGED map_access
    /\ UNCHANGED <<fanVars, jobVars, trkVars, recVars, hpVars,
                   is_processing, processing_thread, latest_frame, latest_stats,
                   result_lock, cpc, nextFrame, superseded, passed, calls,
                   returned, raised, inflightAtStop, stopReturned>>

WorkerPop(w) ==
    /\ wpc[w] = "pop"
    /\ queue_lock = w
    /\ IF frame_queue # <<>>
       THEN /\ frame_data' = [frame_data EXCEPT ![w] = Head(frame_queue)]
            /\ frame_queue' = Tail(frame_queue)
            /\ dequeued' = dequeued \cup {Head(frame_queue)}
            /\ wpc' = [wpc EXCEPT ![w] = "call"]
       ELSE /\ UNCHANGED <<frame_data, frame_queue, dequeued>>
            /\ wpc' = [wpc EXCEPT ![w] = "test"]
    /\ queue_lock' = None
    /\ UNCHANGED <<pipeVars, lifeVars>>
    /\ UNCHANGED map_access
    /\ UNCHANGED <<fanVars, jobVars, trkVars, recVars, hpVars,
                   is_processing, processing_thread, latest_frame, latest_stats,
                   result_lock, cpc, nextFrame, superseded, passed, calls,
                   returned, raised, inflightAtStop, stopReturned>>

\* line 122: the popped frame goes to self.pipeline.process_frame
WorkerCall_RecheckStop(w) ==
    /\ wpc[w] = "call"
    /\ IF is_processing
       THEN /\ passed' = passed \cup {frame_data[w]}
            /\ calls' = [calls EXCEPT ![frame_data[w]] = @ + 1]
            /\ wpc' = [wpc EXCEPT ![w] = "process"]
       ELSE /\ UNCHANGED <<passed, calls>>
            /\ wpc' = [wpc EXCEPT ![w] = "test"]
    /\ UNCHANGED <<pipeVars, lifeVars>>
    /\ UNCHANGED map_access
    /\ UNCHANGED <<fanVars, jobVars, trkVars, recVars, hpVars,
                   is_processing, processing_thread, frame_queue, latest_frame,
                   latest_stats, queue_lock, result_lock, frame_data, cpc,
                   nextFrame, superseded, dequeued, returned, raised,
                   inflightAtStop, stopReturned>>

WorkerCall(w) ==
    /\ wpc[w] = "call"
    /\ passed' = passed \cup {frame_data[w]}
    /\ calls' = [calls EXCEPT ![frame_data[w]] = @ + 1]
    /\ wpc' = [wpc EXCEPT ![w] = "process"]
    /\ UNCHANGED <<pipeVars, lifeVars>>
    /\ UNCHANGED map_access
    /\ UNCHANGED <<fanVars, jobVars, trkVars, recVars, hpVars,
                   is_processing, processing_thread, frame_queue, latest_frame,
                   latest_stats, queue_lock, result_lock, frame_data, cpc,
                   nextFrame, superseded, dequeued, returned, raised,
                   inflightAtStop, stopReturned>>

\* lines 122-126: process_frame returns (annotated_frame, stats)
WorkerProcessReturns(w) ==
    /\ wpc[w] = "process"
    /\ returned' = returned \cup {frame_data[w]}
    /\ wpc' = [wpc EXCEPT ![w] = "acq_r"]
    /\ UNCHANGED <<pipeVars, lifeVars>>
    /\ UNCHANGED map_access
    /\ UNCHANGED <<fanVars, jobVars, trkVars, recVars, hpVars,
                   is_processing, processing_thread, frame_queue, latest_frame,
                   latest_stats, queue_lock, result_lock, frame_data, cpc,
                   nextFrame, superseded, dequeued, passed, calls, raised,
                   inflightAtStop, stopReturned>>

\* lines 133-135: process_frame raises; log, sleep 100ms, next iteration
WorkerProcessRaises_WritesFallback(w) ==
    /\ wpc[w] = "process"
    /\ raised' = raised \cup {frame_data[w]}
    /\ latest_frame' = frame_data[w]
    /\ latest_stats' = frame_data[w]
    /\ wpc' = [wpc EXCEPT ![w] = "test"]
    /\ UNCHANGED <<pipeVars, lifeVars>>
    /\ UNCHANGED map_access
    /\ UNCHANGED <<fanVars, jobVars, trkVars, recVars, hpVars,
                   is_processing, processing_thread, frame_queue, queue_lock,
                   result_lock, frame_data, cpc, nextFrame, superseded,
                   dequeued, passed, calls, returned, inflightAtStop,
                   stopReturned>>

WorkerProcessRaises(w) ==
    /\ wpc[w] = "process"
    /\ raised' = raised \cup {frame_data[w]}
    /\ wpc' = [wpc EXCEPT ![w] = "test"]
    /\ UNCHANGED <<pipeVars, lifeVars>>
    /\ UNCHANGED map_access
    /\ UNCHANGED <<fanVars, jobVars, trkVars, recVars, hpVars,
                   is_processing, processing_thread, frame_queue, latest_frame,
                   latest_stats, queue_lock, result_lock, frame_data, cpc,
                   nextFrame, superseded, dequeued, passed, calls, returned,
                   inflightAtStop, stopReturned>>

\* line 129: with self.result_lock (acquire)
WorkerAcquireResult(w) ==
    /\ wpc[w] = "acq_r"
    /\ result_lock = None
    /\ result_lock' = w
    /\ wpc' = [wpc EXCEPT ![w] = "write"]
    /\ UNCHANGED <<pipeVars, lifeVars>>
    /\ UNCHANGED map_access
    /\ UNCHANGED <<fanVars, jobVars, trkVars, recVars, hpVars,
                   is_processing, processing_thread, frame_queue, latest_frame,
                   latest_stats, queue_lock, frame_data, cpc, nextFrame,
                   camHist>>

\* lines 130-131: store the pair, release the lock, next iteration
WorkerWrite_DropsResult(w) ==
    /\ wpc[w] = "write"
    /\ result_lock = w
    /\ UNCHANGED <<latest_frame, latest_stats>>
    /\ result_lock' = None
    /\ wpc' = [wpc EXCEPT ![w] = "test"]
    /\ UNCHANGED <<pipeVars, lifeVars>>
    /\ UNCHANGED map_access
    /\ UNCHANGED <<fanVars, jobVars, trkVars, recVars, hpVars,
                   is_processing, processing_thread, frame_queue, queue_lock,
                   frame_data, cpc, nextFrame, camHist>>

WorkerWrite(w) ==
    /\ wpc[w] = "write"
    /\ result_lock = w
    /\ latest_frame' = frame_data[w]
    /\ latest_stats' = frame_data[w]
    /\ result_lock' = None
    /\ wpc' = [wpc EXCEPT ![w] = "test"]
    /\ UNCHANGED <<pipeVars, lifeVars>>
    /\ UNCHANGED map_access
    /\ UNCHANGED <<fanVars, jobVars, trkVars, recVars, hpVars,
                   is_processing, processing_thread, frame_queue, queue_lock,
                   frame_data, cpc, nextFrame, camHist>>

\* the steps of the thread that runs _processing_loop
WorkerStep(w) ==
    \/ WorkerTest(w)
    \/ WorkerAcquireQueue(w)
    \/ WorkerPop(w)
    \/ WorkerCall(w)
    \/ WorkerProcessReturns(w)
    \/ WorkerProcessRaises(w)
    \/ WorkerAcquireResult(w)
    \/ WorkerWrite(w)

\* the actor is running: the flag is set, the thread of the handle is alive
\* and no stop_processing call is under way
ActorRunning ==
    /\ is_processing
    /\ thread_alive
    /\ \A c \in Callers : cpc[c] \in {"idle", "start_set", "start_spawn"}

CamNext ==
    \/ \E c \in Callers : StartCheck(c)
    \/ \E c \in Callers : StartSet(c)
    \/ \E c \in Callers : StartSpawn(c)
    \/ \E c \in Callers : StopCheck(c)
    \/ \E c \in Callers : StopSet(c)
    \/ \E c \in Callers : StopJoinReturns(c)
    \/ \E c \in Callers : StopJoinTimeout(c)
    \/ \E c \in Callers : StopClearQueue(c)
    \/ \E c \in Callers : StopClearResult(c)
    \/ SubmitFrame
    \/ \E w \in Workers : WorkerTest(w)
    \/ \E w \in Workers : WorkerAcquireQueue(w)
    \/ \E w \in Workers : WorkerPop(w)
    \/ \E w \in Workers : WorkerCall(w)
    \/ \E w \in Workers : WorkerProcessReturns(w)
    \/ \E w \in Workers : WorkerProcessRaises(w)
    \/ \E w \in Workers : WorkerAcquireResult(w)
    \/ \E w \in Workers : WorkerWrite(w)


(***************************************************************************)
(* IsolatedCameraProcessor: start_processing, stop_processing and the      *)
(* threads they create, without the frames.  Every start_processing that   *)
(* passes its check creates a new thread running _processing_loop; a       *)
(* thread leaves the loop only when its test of self.is_processing fails.  *)
(***************************************************************************)
MaxLoops == 2
MaxLifeCallers == 2

LoopThreads == 1..MaxLoops
LifeCallers == 1..MaxLifeCallers

InitLife ==
    /\ lf_is_processing = FALSE
    /\ lf_thread = None
    /\ lf_loop = [l \in LoopThreads |-> "unstarted"]
    /\ lf_pc = [c \in LifeCallers |-> "idle"]

\* threading.Thread.is_alive() of a loop thread
loop_alive(l) == lf_loop[l] \in {"test", "body"}

LifeUnchanged ==
    /\ UNCHANGED <<camVars, fanVars, jobVars, trkVars, recVars, hpVars>>
    /\ UNCHANGED <<pipeVars, map_access>>

\* start_processing: "if self.is_processing: return" found the flag clear
LF_StartCheck(c) ==
    /\ lf_pc[c] = "idle"
    /\ ~lf_is_processing
    /\ lf_pc' = [lf_pc EXCEPT ![c] = "start_set"]
    /\ UNCHANGED <<lf_is_processing, lf_thread, lf_loop>>
    /\ LifeUnchanged

\* start_processing: self.is_processing = True
LF_StartSet(c) ==
    /\ lf_pc[c] = "start_set"
    /\ lf_is_processing' = TRUE
    /\ lf_pc' = [lf_pc EXCEPT ![c] = "start_spawn"]
    /\ UNCHANGED <<lf_thread, lf_loop>>
    /\ LifeUnchanged

\* start_processing: the new thread replaces the handle and starts
LF_StartSpawn(c) ==
    /\ lf_pc[c] = "start_spawn"
    /\ \E l \in LoopThreads :
          /\ lf_loop[l] = "unstarted"
          /\ \A k \in LoopThreads : lf_loop[k] = "unstarted" => l <= k
          /\ lf_thread' = l
          /\ lf_loop' = [lf_loop EXCEPT ![l] = "test"]
    /\ lf_pc' = [lf_pc EXCEPT ![c] = "idle"]
    /\ UNCHANGED lf_is_processing
    /\ LifeUnchanged

\* stop_processing: "if not self.is_processing: return" found the flag set
LF_StopCheck(c) ==
    /\ lf_pc[c] = "idle"
    /\ lf_is_processing
    /\ lf_pc' = [lf_pc EXCEPT ![c] = "stop_set"]
    /\ UNCHANGED <<lf_is_processing, lf_thread, lf_loop>>
    /\ LifeUnchanged

\* stop_processing: self.is_processing = False
LF_StopSet(c) ==
    /\ lf_pc[c] = "stop_set"
    /\ lf_is_processing' = FALSE
    /\ lf_pc' = [lf_pc EXCEPT ![c] = "stop_join"]
    /\ UNCHANGED <<lf_thread, lf_loop>>
    /\ LifeUnchanged

\* stop_processing: there is no live thread to join, or the joined thread
\* has left its loop; the call clears the slots and returns
LF_StopJoinReturns(c) ==
    /\ lf_pc[c] = "stop_join"
    /\ IF lf_thread = None THEN TRUE ELSE ~loop_alive(lf_thread)
    /\ lf_pc' = [lf_pc EXCEPT ![c] = "idle"]
    /\ UNCHANGED <<lf_is_processing, lf_thread, lf_loop>>
    /\ LifeUnchanged

\* stop_processing: join(timeout=2.0) gives up on a thread that is still
\* alive; the call clears the slots and returns all the same
LF_StopJoinTimeout(c) ==
    /\ lf_pc[c] = "stop_join"
    /\ lf_thread # None
    /\ loop_alive(lf_thread)
    /\ lf_pc' = [lf_pc EXCEPT ![c] = "idle"]
    /\ UNCHANGED <<lf_is_processing, lf_thread, lf_loop>>
    /\ LifeUnchanged

\* _processing_loop: "while self.is_processing"
LF_LoopTest(l) ==
    /\ lf_loop[l] = "test"
    /\ lf_loop' = [lf_loop EXCEPT
                     ![l] = IF lf_is_processing THEN "body" ELSE "exited"]
    /\ UNCHANGED <<lf_is_processing, lf_thread, lf_pc>>
    /\ LifeUnchanged

\* _processing_loop: one pass of the body, whatever it does or raises
LF_LoopBody(l) ==
    /\ lf_loop[l] = "body"
    /\ lf_loop' = [lf_loop EXCEPT ![l] = "test"]
    /\ UNCHANGED <<lf_is_processing, lf_thread, lf_pc>>
    /\ LifeUnchanged

LifeNext ==
    \/ \E c \in LifeCallers : LF_StartCheck(c)
    \/ \E c \in LifeCallers : LF_StartSet(c)
    \/ \E c \in LifeCallers : LF_StartSpawn(c)
    \/ \E c \in LifeCallers : LF_StopCheck(c)
    \/ \E c \in LifeCallers : LF_StopSet(c)
    \/ \E c \in LifeCallers : LF_StopJoinReturns(c)
    \/ \E c \in LifeCallers : LF_StopJoinTimeout(c)
    \/ \E l \in LoopThreads : LF_LoopTest(l)
    \/ \E l \in LoopThreads : LF_LoopBody(l)


(***************************************************************************)
(* ParallelProcessor                                                       *)
(***************************************************************************)
MaxStaged == 3
NumCameras == 2
MaxDrainers == 1
max_workers == 4

StagedFrames == 1..MaxStaged
Cameras == 1..NumCameras
Drainers == 1..MaxDrainers

\* what the pipeline and the fallback put in a result
Annotated(f) == <<"annotated", f>>
Original(f) == <<"original", f>>
Stats(f) == <<"stats", f>>
ZeroStats == <<"zeros">>

InitFan ==
    /\ pp_frame_queue = {}
    /\ pp_next = 1
    /\ dpc = [d \in Drainers |-> "idle"]
    /\ frames_to_process = [d \in Drainers |-> {}]
    /\ futures = [d \in Drainers |-> [c \in Cameras |-> <<"none">>]]
    /\ results = [d \in Drainers |-> {}]
    /\ ret = [d \in Drainers |-> {}]
    /\ pp_superseded = {}
    /\ pp_taken = [f \in StagedFrames |-> 0]
    /\ pp_calls = [f \in StagedFrames |-> 0]
    /\ pp_raised = {}

Keys(m) == {e[1] : e \in m}

\* the frame a map of <<camera id, frame>> entries holds for a camera
FrameOf(m, c) == CHOOSE f \in StagedFrames : <<c, f>> \in m

\* line 65: self.frame_queue[camera_id] = {...}
StageFrame_KeepOld(q, c, f) == q \cup {<<c, f>>}

StageFrame(q, c, f) == {e \in q : e[1] # c} \cup {<<c, f>>}

\* lines 64-70: submit_frame_for_processing
SubmitForProcessing(c) ==
    /\ pp_next <= MaxStaged
    /\ pp_frame_queue' = StageFrame(pp_frame_queue, c, pp_next)
    /\ pp_superseded' = pp_superseded \cup
                          {e[2] : e \in {x \in pp_frame_queue : x[1] = c}}
    /\ pp_next' = pp_next + 1
    /\ UNCHANGED <<pipeVars, lifeVars>>
    /\ UNCHANGED map_access
    /\ UNCHANGED <<camVars, jobVars, trkVars, recVars, hpVars,
                   dpc, frames_to_process, futures, results,
                   ret, pp_taken, pp_calls, pp_raised>>

\* lines 44-51: process_frame_parallel; ok is whether the pipeline returned
process_frame_parallel_NoFrame(c, f, ok) ==
    IF ok THEN <<Annotated(f), Stats(f)>> ELSE <<None, ZeroStats>>

process_frame_parallel(c, f, ok) ==
    IF ok THEN <<Annotated(f), Stats(f)>> ELSE <<Original(f), ZeroStats>>

\* lines 79-80: if not self.frame_queue: return {}   (read without the lock)
DrainCheck(d) ==
    /\ dpc[d] = "idle"
    /\ frames_to_process' = [frames_to_process EXCEPT ![d] = {}]
    /\ futures' = [futures EXCEPT ![d] = [c \in Cameras |-> <<"none">>]]
    /\ results' = [results EXCEPT ![d] = {}]
    /\ ret' = [ret EXCEPT ![d] = {}]
    /\ dpc' = [dpc EXCEPT ![d] = IF pp_frame_queue = {} THEN "idle" ELSE "take"]
    /\ UNCHANGED <<pipeVars, lifeVars>>
    /\ UNCHANGED map_access
    /\ UNCHANGED <<camVars, jobVars, trkVars, recVars, hpVars,
                   pp_frame_queue, pp_next, pp_superseded,
                   pp_taken, pp_calls, pp_raised>>

\* line 86: what the take leaves in the stage
StageAfterTake_NoClear(q) == q

StageAfterTake(q) == {}

\* lines 84-89: with self.queue_lock: copy the stage and clear it;
\* return {} when the copy is empty
DrainTake(d) ==
    /\ dpc[d] = "take"
    /\ frames_to_process' = [frames_to_process EXCEPT ![d] = pp_frame_queue]
    /\ pp_frame_queue' = StageAfterTake(pp_frame_queue)
    /\ pp_taken' = [f \in StagedFrames |->
                      IF f \in {e[2] : e \in pp_frame_queue}
                      THEN pp_taken[f] + 1 ELSE pp_taken[f]]
    /\ dpc' = [dpc EXCEPT ![d] = IF pp_frame_queue = {} THEN "idle"
                                                         ELSE "dispatch"]
    /\ UNCHANGED <<pipeVars, lifeVars>>
    /\ UNCHANGED map_access
    /\ UNCHANGED <<camVars, jobVars, trkVars, recVars, hpVars, pp_next, futures, results, ret,
                   pp_superseded, pp_calls, pp_raised>>

\* lines 92-101: one executor.submit per taken camera
DrainDispatch(d) ==
    /\ dpc[d] = "dispatch"
    /\ futures' = [futures EXCEPT ![d] =
                     [c \in Cameras |->
                        IF c \in Keys(frames_to_process[d])
                        THEN <<"queued">> ELSE <<"none">>]]
    /\ dpc' = [dpc EXCEPT ![d] = "collect"]
    /\ UNCHANGED <<pipeVars, lifeVars>>
    /\ UNCHANGED map_access
    /\ UNCHANGED <<camVars, jobVars, trkVars, recVars, hpVars, pp_frame_queue, pp_next,
                   frames_to_process, results, ret, pp_superseded, pp_taken,
                   pp_calls, pp_raised>>

Running == {x \in Drainers \X Cameras : futures[x[1]][x[2]] = <<"running">>}

\* a pool thread picks the task up (at most max_workers run at a time)
TaskStart(d, c) ==
    /\ futures[d][c] = <<"queued">>
    /\ Cardinality(Running) < max_workers
    /\ futures' = [futures EXCEPT ![d][c] = <<"running">>]
    /\ pp_calls' = [pp_calls EXCEPT ![FrameOf(frames_to_process[d], c)] = @ + 1]
    /\ UNCHANGED <<pipeVars, lifeVars>>
    /\ UNCHANGED map_access
    /\ UNCHANGED <<camVars, jobVars, trkVars, recVars, hpVars, pp_frame_queue, pp_next, dpc,
                   frames_to_process, results, ret, pp_superseded, pp_taken,
                   pp_raised>>

\* lines 46-47: the pipeline returns
TaskReturns(d, c) ==
    /\ futures[d][c] = <<"running">>
    /\ futures' = [futures EXCEPT ![d][c] =
          <<"done", process_frame_parallel(
                        c, FrameOf(frames_to_process[d], c), TRUE)>>]
    /\ UNCHANGED <<pipeVars, lifeVars>>
    /\ UNCHANGED map_access
    /\ UNCHANGED <<camVars, jobVars, trkVars, recVars, hpVars, pp_frame_queue, pp_next, dpc,
                   frames_to_process, results, ret, pp_superseded, pp_taken,
                   pp_calls, pp_raised>>

\* lines 48-51: the pipeline raises
TaskRaises(d, c) ==
    /\ futures[d][c] = <<"running">>
    /\ futures' = [futures EXCEPT ![d][c] =
          <<"done", process_frame_parallel(
                        c, FrameOf(frames_to_process[d], c), FALSE)>>]
    /\ pp_raised' = pp_raised \cup {FrameOf(frames_to_process[d], c)}
    /\ UNCHANGED <<pipeVars, lifeVars>>
    /\ UNCHANGED map_access
    /\ UNCHANGED <<camVars, jobVars, trkVars, recVars, hpVars, pp_frame_queue, pp_next, dpc,
                   frames_to_process, results, ret, pp_superseded, pp_taken,
                   pp_calls>>

\* lines 105-114: as_completed yields a finished future; its result is stored
\* under its camera id
DrainCollect_SkipFailed(d, c) ==
    /\ dpc[d] = "collect"
    /\ futures[d][c][1] = "done"
    /\ c \notin Keys(results[d])
    /\ results' = [results EXCEPT ![d] =
                     IF futures[d][c][2][2] = ZeroStats THEN @
                     ELSE @ \cup {<<c, futures[d][c][2]>>}]
    /\ futures' = [futures EXCEPT ![d][c] = <<"none">>]
    /\ UNCHANGED <<pipeVars, lifeVars>>
    /\ UNCHANGED map_access
    /\ UNCHANGED <<camVars, jobVars, trkVars, recVars, hpVars, pp_frame_queue, pp_next, dpc,
                   frames_to_process, ret, pp_superseded, pp_taken, pp_calls,
                   pp_raised>>

DrainCollect(d, c) ==
    /\ dpc[d] = "collect"
    /\ futures[d][c][1] = "done"
    /\ c \notin Keys(results[d])
    /\ results' = [results EXCEPT ![d] = @ \cup {<<c, futures[d][c][2]>>}]
    /\ UNCHANGED <<pipeVars, lifeVars>>
    /\ UNCHANGED map_access
    /\ UNCHANGED <<camVars, jobVars, trkVars, recVars, hpVars, pp_frame_queue, pp_next, dpc,
                   frames_to_process, futures, ret, pp_superseded, pp_taken,
                   pp_calls, pp_raised>>

\* line 116: every future has been yielded; return results
DrainReturn(d) ==
    /\ dpc[d] = "collect"
    /\ \A c \in Cameras : futures[d][c][1] \in {"none", "done"}
    /\ \A c \in Cameras : futures[d][c][1] = "done" => c \in Keys(results[d])
    /\ ret' = [ret EXCEPT ![d] = results[d]]
    /\ dpc' = [dpc EXCEPT ![d] = "idle"]
    /\ UNCHANGED <<pipeVars, lifeVars>>
    /\ UNCHANGED map_access
    /\ UNCHANGED <<camVars, jobVars, trkVars, recVars, hpVars, pp_frame_queue, pp_next,
                   frames_to_process, futures, results, pp_superseded,
                   pp_taken, pp_calls, pp_raised>>

FanNext ==
    \/ \E c \in Cameras : SubmitForProcessing(c)
    \/ \E d \in Drainers : DrainCheck(d)
    \/ \E d \in Drainers : DrainTake(d)
    \/ \E d \in Drainers : DrainDispatch(d)
    \/ \E d \in Drainers, c \in Cameras : TaskStart(d, c)
    \/ \E d \in Drainers, c \in Cameras : TaskReturns(d, c)
    \/ \E d \in Drainers, c \in Cameras : TaskRaises(d, c)
    \/ \E d \in Drainers, c \in Cameras : DrainCollect(d, c)
    \/ \E d \in Drainers : DrainReturn(d)

(***************************************************************************)
(* VideoJobManager                                                         *)
(***************************************************************************)
MaxJobs == 1
MaxTotal == 2
MaxRead == 3

JobIds == 1..MaxJobs

InitJob ==
    /\ jobs = {}
    /\ next_job = 1
    /\ job_state = [j \in JobIds |-> "absent"]
    /\ progress = [j \in JobIds |-> 0]
    /\ job_error = [j \in JobIds |-> FALSE]
    /\ completed_at = [j \in JobIds |-> FALSE]
    /\ jpc = [j \in JobIds |-> "none"]
    /\ total_frames = [j \in JobIds |-> 0]
    /\ frame_count = [j \in JobIds |-> 0]
    /\ cap_open = [j \in JobIds |-> FALSE]
    /\ out_open = [j \in JobIds |-> FALSE]
    /\ old = [j \in JobIds |-> FALSE]
    /\ clpc = "idle"
    /\ jobs_to_remove = {}
    /\ fault = [j \in JobIds |-> "none"]

\* lines 34-57: create_job stores the job as pending and starts its thread
create_job ==
    /\ next_job <= MaxJobs
    /\ jobs' = jobs \cup {next_job}
    /\ job_state' = [job_state EXCEPT ![next_job] = "pending"]
    /\ progress' = [progress EXCEPT ![next_job] = 0]
    /\ job_error' = [job_error EXCEPT ![next_job] = FALSE]
    /\ completed_at' = [completed_at EXCEPT ![next_job] = FALSE]
    /\ jpc' = [jpc EXCEPT ![next_job] = "start"]
    /\ next_job' = next_job + 1
    /\ UNCHANGED <<pipeVars, lifeVars>>
    /\ map_access' = Access("jobs", {"job_lock"})
    /\ UNCHANGED <<camVars, fanVars, trkVars, recVars, hpVars, fault,
                   total_frames, frame_count, cap_open,
                   out_open, old, clpc, jobs_to_remove>>

\* lines 61-62: the snapshot get_job_status returns (None for an unknown id)
get_job_status(j) ==
    IF j \in jobs
    THEN [state |-> job_state[j], progress |-> progress[j],
          error |-> job_error[j]]
    ELSE None

\* lines 73-79: under job_lock, return if the job is gone, else mark it running
PV_Start_KeepsPending(j) ==
    /\ jpc[j] = "start"
    /\ IF j \notin jobs
       THEN jpc' = [jpc EXCEPT ![j] = "finished"]
       ELSE jpc' = [jpc EXCEPT ![j] = "open_input"]
    /\ UNCHANGED <<pipeVars, lifeVars>>
    /\ map_access' = Access("jobs", {"job_lock"})
    /\ UNCHANGED <<camVars, fanVars, trkVars, recVars, hpVars, fault,
                   jobs, next_job, job_state, progress,
                   job_error, completed_at, total_frames, frame_count,
                   cap_open, out_open, old, clpc, jobs_to_remove>>

PV_Start(j) ==
    /\ jpc[j] = "start"
    /\ IF j \notin jobs
       THEN /\ jpc' = [jpc EXCEPT ![j] = "finished"]
            /\ UNCHANGED job_state
       ELSE /\ jpc' = [jpc EXCEPT ![j] = "open_input"]
            /\ job_state' = [job_state EXCEPT ![j] = "running"]
    /\ UNCHANGED <<pipeVars, lifeVars>>
    /\ map_access' = Access("jobs", {"job_lock"})
    /\ UNCHANGED <<camVars, fanVars, trkVars, recVars, hpVars, fault,
                   jobs, next_job, progress, job_error,
                   completed_at, total_frames, frame_count, cap_open, out_open,
                   old, clpc, jobs_to_remove>>

\* lines 86-88: cv2.VideoCapture(input_path) opens
PV_OpenInput(j) ==
    /\ jpc[j] = "open_input"
    /\ cap_open' = [cap_open EXCEPT ![j] = TRUE]
    /\ jpc' = [jpc EXCEPT ![j] = "open_output"]
    /\ UNCHANGED <<pipeVars, lifeVars>>
    /\ UNCHANGED map_access
    /\ UNCHANGED <<camVars, fanVars, trkVars, recVars, hpVars, fault,
                   jobs, next_job, job_state, progress,
                   job_error, completed_at, total_frames, frame_count,
                   out_open, old, clpc, jobs_to_remove>>

\* lines 87-88: cap.isOpened() is false: raise
PV_OpenInputFails(j) ==
    /\ jpc[j] = "open_input"
    /\ jpc' = [jpc EXCEPT ![j] = "mark_error"]
    /\ fault' = [fault EXCEPT ![j] = "input"]
    /\ UNCHANGED <<pipeVars, lifeVars>>
    /\ UNCHANGED map_access
    /\ UNCHANGED <<camVars, fanVars, trkVars, recVars, hpVars,
                   jobs, next_job, job_state, progress,
                   job_error, completed_at, total_frames, frame_count,
                   cap_open, out_open, old, clpc, jobs_to_remove>>

\* lines 91-106: read the properties (the input reports total frames n),
\* open the writer, reset the pipeline, frame_count = 0
PV_OpenOutput(j, n) ==
    /\ jpc[j] = "open_output"
    /\ total_frames' = [total_frames EXCEPT ![j] = n]
    /\ frame_count' = [frame_count EXCEPT ![j] = 0]
    /\ out_open' = [out_open EXCEPT ![j] = TRUE]
    /\ jpc' = [jpc EXCEPT ![j] = "loop"]
    /\ UNCHANGED <<pipeVars, lifeVars>>
    /\ UNCHANGED map_access
    /\ UNCHANGED <<camVars, fanVars, trkVars, recVars, hpVars, fault,
                   jobs, next_job, job_state, progress,
                   job_error, completed_at, cap_open, old, clpc,
                   jobs_to_remove>>

\* lines 100-101: out.isOpened() is false: raise (cap is not released)
PV_OpenOutputFails(j, n) ==
    /\ jpc[j] = "open_output"
    /\ total_frames' = [total_frames EXCEPT ![j] = n]
    /\ jpc' = [jpc EXCEPT ![j] = "mark_error"]
    /\ fault' = [fault EXCEPT ![j] = "output"]
    /\ UNCHANGED <<pipeVars, lifeVars>>
    /\ UNCHANGED map_access
    /\ UNCHANGED <<camVars, fanVars, trkVars, recVars, hpVars,
                   jobs, next_job, job_state, progress,
                   job_error, completed_at, frame_count, cap_open, out_open,
                   old, clpc, jobs_to_remove>>

\* line 124: int((frame_count / total_frames) * 100), total_frames > 0
\* (for the counts of this model the float expression equals the integer one)
ProgressOf(fc, total) == (fc * 100) \div total

\* lines 111-126: one frame is read, processed and written; frame_count grows;
\* the progress is computed (ZeroDivisionError when total_frames is 0) and
\* stored under job_lock
PV_Frame(j) ==
    /\ jpc[j] = "loop"
    /\ frame_count[j] < MaxRead
    /\ frame_count' = [frame_count EXCEPT ![j] = @ + 1]
    /\ IF total_frames[j] = 0
       THEN /\ jpc' = [jpc EXCEPT ![j] = "mark_error"]
            /\ UNCHANGED progress
       ELSE /\ progress' = [progress EXCEPT ![j] =
                               ProgressOf(frame_count[j] + 1, total_frames[j])]
            /\ UNCHANGED jpc
    /\ UNCHANGED <<pipeVars, lifeVars>>
    /\ map_access' = IF total_frames[j] = 0 THEN map_access
                                           ELSE Access("jobs", {"job_lock"})
    /\ UNCHANGED <<camVars, fanVars, trkVars, recVars, hpVars, fault,
                   jobs, next_job, job_state, job_error,
                   completed_at, total_frames, cap_open, out_open, old, clpc,
                   jobs_to_remove>>

\* line 116: pipeline.process_frame raises on the frame just read
PV_FrameRaises(j) ==
    /\ jpc[j] = "loop"
    /\ frame_count[j] < MaxRead
    /\ jpc' = [jpc EXCEPT ![j] = "mark_error"]
    /\ fault' = [fault EXCEPT ![j] = "frame"]
    /\ UNCHANGED <<pipeVars, lifeVars>>
    /\ UNCHANGED map_access
    /\ UNCHANGED <<camVars, fanVars, trkVars, recVars, hpVars,
                   jobs, next_job, job_state, progress,
                   job_error, completed_at, total_frames, frame_count,
                   cap_open, out_open, old, clpc, jobs_to_remove>>

\* lines 111-113, 133-134: cap.read() gives no frame; release both
PV_EndOfInput(j) ==
    /\ jpc[j] = "loop"
    /\ cap_open' = [cap_open EXCEPT ![j] = FALSE]
    /\ out_open' = [out_open EXCEPT ![j] = FALSE]
    /\ jpc' = [jpc EXCEPT ![j] = "mark_done"]
    /\ UNCHANGED <<pipeVars, lifeVars>>
    /\ UNCHANGED map_access
    /\ UNCHANGED <<camVars, fanVars, trkVars, recVars, hpVars, fault,
                   jobs, next_job, job_state, progress,
                   job_error, completed_at, total_frames, frame_count, old,
                   clpc, jobs_to_remove>>

\* lines 137-140: under job_lock: done, progress 100, completed_at
PV_MarkDone(j) ==
    /\ jpc[j] = "mark_done"
    /\ job_state' = [job_state EXCEPT ![j] = "done"]
    /\ progress' = [progress EXCEPT ![j] = 100]
    /\ completed_at' = [completed_at EXCEPT ![j] = TRUE]
    /\ jpc' = [jpc EXCEPT ![j] = "finished"]
    /\ UNCHANGED <<pipeVars, lifeVars>>
    /\ map_access' = Access("jobs", {"job_lock"})
    /\ UNCHANGED <<camVars, fanVars, trkVars, recVars, hpVars, fault,
                   jobs, next_job, job_error, total_frames,
                   frame_count, cap_open, out_open, old, clpc, jobs_to_remove>>

\* lines 144-150: under job_lock: error, the message
PV_MarkError_ResetsProgress(j) ==
    /\ jpc[j] = "mark_error"
    /\ job_state' = [job_state EXCEPT ![j] = "error"]
    /\ job_error' = [job_error EXCEPT ![j] = TRUE]
    /\ progress' = [progress EXCEPT ![j] = 0]
    /\ jpc' = [jpc EXCEPT ![j] = "finished"]
    /\ UNCHANGED <<pipeVars, lifeVars>>
    /\ map_access' = Access("jobs", {"job_lock"})
    /\ UNCHANGED <<camVars, fanVars, trkVars, recVars, hpVars, fault,
                   jobs, next_job, completed_at,
                   total_frames, frame_count, cap_open, out_open, old, clpc,
                   jobs_to_remove>>

PV_MarkError_Retries(j) ==
    /\ jpc[j] = "mark_error"
    /\ jpc' = [jpc EXCEPT ![j] = "open_input"]
    /\ UNCHANGED <<pipeVars, lifeVars>>
    /\ UNCHANGED map_access
    /\ UNCHANGED <<camVars, fanVars, trkVars, recVars, hpVars, fault,
                   jobs, next_job, job_state, job_error, progress, completed_at,
                   total_frames, frame_count, cap_open, out_open, old, clpc,
                   jobs_to_remove>>

PV_MarkError(j) ==
    /\ jpc[j] = "mark_error"
    /\ job_state' = [job_state EXCEPT ![j] = "error"]
    /\ job_error' = [job_error EXCEPT ![j] = TRUE]
    /\ jpc' = [jpc EXCEPT ![j] = "finished"]
    /\ UNCHANGED <<pipeVars, lifeVars>>
    /\ map_access' = Access("jobs", {"job_lock"})
    /\ UNCHANGED <<camVars, fanVars, trkVars, recVars, hpVars, fault,
                   jobs, next_job, progress, completed_at,
                   total_frames, frame_count, cap_open, out_open, old, clpc,
                   jobs_to_remove>>

\* time passes: the job's age exceeds max_age_seconds from now on
GrowOld(j) ==
    /\ j \in jobs
    /\ ~old[j]
    /\ old' = [old EXCEPT ![j] = TRUE]
    /\ UNCHANGED <<pipeVars, lifeVars>>
    /\ UNCHANGED map_access
    /\ UNCHANGED <<camVars, fanVars, trkVars, recVars, hpVars, fault,
                   jobs, next_job, job_state, progress,
                   job_error, completed_at, jpc, total_frames, frame_count,
                   cap_open, out_open, clpc, jobs_to_remove>>

\* lines 163-164: job_age > max_age_seconds and job['state'] in done, error
Removable_AnyState(j) == old[j]

Removable(j) == old[j] /\ job_state[j] \in {"done", "error"}

\* lines 154-165: under job_lock, list the old jobs in state done or error
CleanupScan ==
    /\ clpc = "idle"
    /\ jobs_to_remove' = {j \in jobs : Removable(j)}
    /\ clpc' = "remove"
    /\ UNCHANGED <<pipeVars, lifeVars>>
    /\ map_access' = Access("jobs", {"job_lock"})
    /\ UNCHANGED <<camVars, fanVars, trkVars, recVars, hpVars, fault,
                   jobs, next_job, job_state, progress,
                   job_error, completed_at, jpc, total_frames, frame_count,
                   cap_open, out_open, old>>

\* lines 170-184: _remove_job: under job_lock, delete the job if it is there
remove_job(j) ==
    /\ jobs' = jobs \ {j}
    /\ job_state' = [job_state EXCEPT ![j] = IF j \in jobs THEN "absent" ELSE @]
    /\ progress' = [progress EXCEPT ![j] = IF j \in jobs THEN 0 ELSE @]
    /\ job_error' = [job_error EXCEPT ![j] = IF j \in jobs THEN FALSE ELSE @]
    /\ completed_at' = [completed_at EXCEPT ![j] = IF j \in jobs THEN FALSE ELSE @]

\* lines 167-168: for job_id in jobs_to_remove: self._remove_job(job_id)
CleanupRemove ==
    /\ clpc = "remove"
    /\ IF jobs_to_remove = {}
       THEN /\ clpc' = "idle"
            /\ UNCHANGED <<jobs, job_state, progress, job_error, completed_at,
                           jobs_to_remove>>
       ELSE \E j \in jobs_to_remove :
            /\ remove_job(j)
            /\ jobs_to_remove' = jobs_to_remove \ {j}
            /\ UNCHANGED clpc
    /\ UNCHANGED <<pipeVars, lifeVars>>
    /\ map_access' = IF jobs_to_remove = {} THEN map_access
                                            ELSE Access("jobs", {"job_lock"})
    /\ UNCHANGED <<camVars, fanVars, trkVars, recVars, hpVars, fault,
                   next_job, jpc, total_frames, frame_count,
                   cap_open, out_open, old>>

JobNext ==
    \/ create_job
    \/ \E j \in JobIds : PV_Start(j)
    \/ \E j \in JobIds : PV_OpenInput(j)
    \/ \E j \in JobIds : PV_OpenInputFails(j)
    \/ \E j \in JobIds, n \in 0..MaxTotal : PV_OpenOutput(j, n)
    \/ \E j \in JobIds, n \in 0..MaxTotal : PV_OpenOutputFails(j, n)
    \/ \E j \in JobIds : PV_Frame(j)
    \/ \E j \in JobIds : PV_FrameRaises(j)
    \/ \E j \in JobIds : PV_EndOfInput(j)
    \/ \E j \in JobIds : PV_MarkDone(j)
    \/ \E j \in JobIds : PV_MarkError(j)
    \/ \E j \in JobIds : GrowOld(j)
    \/ CleanupScan
    \/ CleanupRemove

\* lines 50-55, 71-150: the steps of the background thread of job j
JobThread(j) ==
    \/ PV_Start(j)
    \/ PV_OpenInput(j)
    \/ PV_OpenInputFails(j)
    \/ \E n \in 0..MaxTotal : PV_OpenOutput(j, n)
    \/ \E n \in 0..MaxTotal : PV_OpenOutputFails(j, n)
    \/ PV_Frame(j)
    \/ PV_FrameRaises(j)
    \/ PV_EndOfInput(j)
    \/ PV_MarkDone(j)
    \/ PV_MarkError(j)

(***************************************************************************)
(* PersonTracker (core/tracker.py)                                         *)
(***************************************************************************)
MaxDet == 2
MaxUpdates == 3
max_disappeared == 1
iou_threshold_num == 3
iou_threshold_den == 10

\* the bboxes the detector hands over: squares of side 4 on one row; the
\* IoU of the first two is 1/3 and that of the last two 3/5, both above the
\* threshold, and that of the first and the last is 1/7, below it
BoxPos == <<0, 2, 3>>
Box(i) == <<BoxPos[i], 0, BoxPos[i] + 4, 4>>
Boxes == {Box(i) : i \in DOMAIN BoxPos}

\* the detection lists an update call may get: 0..MaxDet bboxes
DetectionLists == UNION {[1..n -> Boxes] : n \in 0..MaxDet}

MaxOf(a, b) == IF a >= b THEN a ELSE b
MinOf(a, b) == IF a <= b THEN a ELSE b
Abs(a) == IF a >= 0 THEN a ELSE 0 - a

InitTrk ==
    /\ tracks = <<>>
    /\ next_id = 1
    /\ tr_frame_count = 0
    /\ last_dets = <<>>
    /\ last_ids = <<>>
    /\ last_new = {}
    /\ missed = <<>>
    /\ ids_since_reset = {}
    /\ ids_ever = {}
    /\ updates_done = 0

\* lines 35-54: calculate_iou, as the fraction <<intersection, union>>
\* (<<0, 1>> where the code returns 0.0)
calculate_iou(box1, box2) ==
    LET x1 == MaxOf(box1[1], box2[1])
        y1 == MaxOf(box1[2], box2[2])
        x2 == MinOf(box1[3], box2[3])
        y2 == MinOf(box1[4], box2[4])
        intersection == (x2 - x1) * (y2 - y1)
        area1 == (box1[3] - box1[1]) * (box1[4] - box1[2])
        area2 == (box2[3] - box2[1]) * (box2[4] - box2[2])
        union == area1 + area2 - intersection
    IN  IF x2 <= x1 \/ y2 <= y1 THEN <<0, 1>>
        ELSE IF union <= 0 THEN <<0, 1>>
        ELSE <<intersection, union>>

\* line 107: iou > self.iou_threshold
AboveThreshold_Half(iou) == iou[1] * 2 > iou[2]

AboveThreshold(iou) ==
    iou[1] * iou_threshold_den > iou_threshold_num * iou[2]

\* lines 56-59, 109-111: twice the distance between the two centers (the
\* offsets of the bboxes of this model have an integer root)
CenterDistance2(box1, box2) ==
    LET dx == (box1[1] + box1[3]) - (box2[1] + box2[3])
        dy == (box1[2] + box1[4]) - (box2[2] + box2[4])
    IN  CHOOSE r \in 0..(Abs(dx) + Abs(dy)) : r * r = dx * dx + dy * dy

\* lines 115-116: score = iou * 0.8 + (1 - min(distance / 200, 1)) * 0.2,
\* times 2000 and as the fraction <<numerator, denominator>>
Score(box1, box2) ==
    LET iou == calculate_iou(box1, box2)
        d2 == MinOf(CenterDistance2(box1, box2), 400)
    IN  <<1600 * iou[1] + iou[2] * (400 - d2), iou[2]>>

ScoreGreater(s1, s2) == s1[1] * s2[2] > s2[1] * s1[2]

\* lines 99-118: the (detection_idx, track_id, score) candidates: the pairs
\* whose iou is above the threshold
MatchCandidates(dets, tks) ==
    {<<p[1], p[2], Score(dets[p[1]], tks[p[2]].bbox)>> :
        p \in {q \in (1..Len(dets)) \X (DOMAIN tks) :
                 AboveThreshold(calculate_iou(dets[q[1]], tks[q[2]].bbox))}}

\* line 121: sort(key=score, reverse=True).  The sort is stable, so equal
\* scores keep the order of the two loops of lines 99-100: by detection
\* index, then by the order of the tracks dict, which is by rising id since
\* tracks are put in by rising id
SortsBefore_TiesReversed(c, d) ==
    \/ ScoreGreater(c[3], d[3])
    \/ /\ ~ScoreGreater(d[3], c[3])
       /\ (c[1] > d[1] \/ (c[1] = d[1] /\ c[2] > d[2]))

SortsBefore(c, d) ==
    \/ ScoreGreater(c[3], d[3])
    \/ /\ ~ScoreGreater(d[3], c[3])
       /\ (c[1] < d[1] \/ (c[1] = d[1] /\ c[2] < d[2]))

\* put candidate c at its place in a sorted list
InsertSorted(c, sorted) ==
    LET k == Cardinality({j \in 1..Len(sorted) : SortsBefore(sorted[j], c)})
    IN  SubSeq(sorted, 1, k) \o <<c>> \o SubSeq(sorted, k + 1, Len(sorted))

RECURSIVE SortByScore(_)
SortByScore(S) ==
    IF S = {} THEN <<>>
    ELSE CHOOSE r \in {InsertSorted(c, rest) :
                 <<c, rest>> \in {<<x, SortByScore(S \ {x})>> :
                                    x \in {CHOOSE y \in S : TRUE}}} : TRUE

\* lines 123-133: confirm each candidate whose detection and track are both
\* unclaimed; the result is the set of <<detection_idx, track_id>> matches
RECURSIVE GreedyMatch_NoTrackCheck(_, _)
GreedyMatch_NoTrackCheck(s, acc) ==
    IF s = <<>> THEN acc
    ELSE IF s[1][1] \notin {a[1] : a \in acc}
         THEN GreedyMatch_NoTrackCheck(Tail(s), acc \cup {<<s[1][1], s[1][2]>>})
         ELSE GreedyMatch_NoTrackCheck(Tail(s), acc)

RECURSIVE GreedyMatch(_, _)
GreedyMatch(s, acc) ==
    IF s = <<>> THEN acc
    ELSE IF s[1][1] \notin {a[1] : a \in acc} /\ s[1][2] \notin {a[2] : a \in acc}
         THEN GreedyMatch(Tail(s), acc \cup {<<s[1][1], s[1][2]>>})
         ELSE GreedyMatch(Tail(s), acc)

\* lines 85, 138: the id a new track gets
NewId(nid, tks) == nid

\* lines 91, 144: self.next_id += 1
NextIdAfter_Same(nid) == nid

NextIdAfter_Wraps(nid) == IF nid >= 2 THEN 1 ELSE nid + 1

NextIdAfter(nid) == nid + 1

\* lines 86-90, 139-143: a new track
NewTrack(bbox, fc) == [bbox |-> bbox, disappeared |-> 0, last_seen |-> fc]

\* put a track in the map under an id (self.tracks[id] = ...)
PutTrack(tks, id, t) ==
    [x \in DOMAIN tks \cup {id} |-> IF x = id THEN t ELSE tks[x]]

\* lines 84-91 and 136-144: every detection whose index is not in skip gets
\* a new id and a new track; st is [tracks, next_id, ids, new], new being
\* the ids given so far
RECURSIVE CreateTracks(_, _, _, _, _)
CreateTracks(i, dets, skip, fc, st) ==
    IF i > Len(dets) THEN st
    ELSE IF i \in skip THEN CreateTracks(i + 1, dets, skip, fc, st)
    ELSE LET id == NewId(st.next_id, st.tracks)
         IN  CreateTracks(i + 1, dets, skip, fc,
                 [tracks |-> PutTrack(st.tracks, id, NewTrack(dets[i], fc)),
                  next_id |-> NextIdAfter(st.next_id),
                  ids |-> [st.ids EXCEPT ![i] = id],
                  new |-> st.new \cup {id}])

\* lines 75-76 and 147-149: disappeared += 1 for the tracks not in matched
MarkDisappeared(tks, matched) ==
    [x \in DOMAIN tks |->
        IF x \in matched THEN tks[x]
        ELSE [tks[x] EXCEPT !.disappeared = @ + 1]]

\* lines 156-165: _cleanup_tracks
cleanup_tracks_AtLimit(tks) ==
    [x \in {y \in DOMAIN tks : tks[y].disappeared < max_disappeared} |-> tks[x]]

cleanup_tracks_KeepsAll(tks) == tks

cleanup_tracks(tks) ==
    [x \in {y \in DOMAIN tks : tks[y].disappeared <= max_disappeared} |-> tks[x]]

\* lines 167-170: get_disappeared_track_ids, as the set of the ids listed
get_disappeared_track_ids(tks) ==
    {x \in DOMAIN tks : tks[x].disappeared > max_disappeared}

\* lines 126-130: the matched tracks take the bbox of their detection
ApplyMatches_KeepBox(tks, dets, matches, fc) ==
    [x \in DOMAIN tks |->
        IF x \in {a[2] : a \in matches}
        THEN [bbox |-> tks[x].bbox, disappeared |-> 0, last_seen |-> fc]
        ELSE tks[x]]

ApplyMatches(tks, dets, matches, fc) ==
    [x \in DOMAIN tks |->
        IF x \in {a[2] : a \in matches}
        THEN LET a == CHOOSE b \in matches : b[2] = x
             IN  [bbox |-> dets[a[1]], disappeared |-> 0, last_seen |-> fc]
        ELSE tks[x]]

\* lines 83-92: no track yet; every detection gets a new track
UpdateNoTracks(tks, nid, fc, dets) ==
    LET Result(st) == [tracks |-> st.tracks, next_id |-> st.next_id,
                       ids |-> st.ids, matched |-> {}, new |-> st.new]
        first == [tracks |-> tks, next_id |-> nid,
                  ids |-> [i \in 1..Len(dets) |-> None], new |-> {}]
    IN  CHOOSE r \in {Result(st) : st \in {CreateTracks(1, dets, {}, fc, first)}} :
            TRUE

\* lines 136-152: after the matching: new tracks for the unmatched
\* detections, disappeared += 1 for the tracks not matched, cleanup
UpdateAfterMatch(tks, nid, fc, dets, matches) ==
    LET matched_tracks == {a[2] : a \in matches}
        matched_detections == {a[1] : a \in matches}
        ids0 == [i \in 1..Len(dets) |->
                   IF i \in matched_detections
                   THEN (CHOOSE a \in matches : a[1] = i)[2]
                   ELSE None]
        first == [tracks |-> ApplyMatches(tks, dets, matches, fc),
                  next_id |-> nid, ids |-> ids0, new |-> {}]
        Result(st) ==
            [tracks |-> cleanup_tracks(MarkDisappeared(st.tracks, matched_tracks)),
             next_id |-> st.next_id, ids |-> st.ids, matched |-> matched_tracks,
             new |-> st.new]
    IN  CHOOSE r \in {Result(st) : st \in
                        {CreateTracks(1, dets, matched_detections, fc, first)}} :
            TRUE

\* lines 71-154: update(detections) on the tracker state (tks, nid), fc being
\* the frame count after line 71; the result is [tracks, next_id, ids,
\* matched, new]: the new state, the ids of the detections in input order
\* (<<>> is the empty list of line 80), the tracks matched in this call and
\* the ids given to new tracks
UpdateResult(tks, nid, fc, dets) ==
    IF dets = <<>>
    THEN [tracks |-> cleanup_tracks(MarkDisappeared(tks, {})),
          next_id |-> nid, ids |-> <<>>, matched |-> {}, new |-> {}]
    ELSE IF DOMAIN tks = {}
    THEN UpdateNoTracks(tks, nid, fc, dets)
    ELSE CHOOSE r \in {UpdateAfterMatch(tks, nid, fc, dets, m) : m \in
                 {GreedyMatch(SortByScore(MatchCandidates(dets, tks)), {})}} :
             TRUE

\* update(detections): the whole call; the histories record its input, its
\* return value, the new ids, and for every track still in the map the
\* number of consecutive calls in which it was not matched (0 for a track
\* made or matched in this call)
tracker_update(dets) ==
    /\ updates_done < MaxUpdates
    /\ updates_done' = updates_done + 1
    /\ \E r \in {UpdateResult(tracks, next_id, tr_frame_count + 1, dets)} :
       LET fc == tr_frame_count + 1
           fresh == r.new
       IN  /\ tr_frame_count' = fc
           /\ tracks' = r.tracks
           /\ next_id' = r.next_id
           /\ last_dets' = dets
           /\ last_ids' = r.ids
           /\ last_new' = fresh
           /\ missed' = [x \in DOMAIN r.tracks |->
                           IF x \in r.matched \/ x \in fresh THEN 0
                           ELSE missed[x] + 1]
           /\ ids_since_reset' = ids_since_reset \cup fresh
           /\ ids_ever' = ids_ever \cup fresh
    /\ map_access' = Access("tracks", {})

update(dets) ==
    /\ tracker_update(dets)
    /\ UNCHANGED <<pipeVars, lifeVars>>
    /\ UNCHANGED <<camVars, fanVars, jobVars, recVars, hpVars>>

\* lines 176-180: reset
tracker_reset ==
    /\ tracks' = <<>>
    /\ next_id' = 1
    /\ tr_frame_count' = 0
    /\ missed' = <<>>
    /\ ids_since_reset' = {}
    /\ map_access' = Access("tracks", {})
    /\ UNCHANGED <<last_dets, last_ids, last_new, ids_ever, updates_done>>

reset ==
    /\ tracker_reset
    /\ UNCHANGED <<pipeVars, lifeVars>>
    /\ UNCHANGED <<camVars, fanVars, jobVars, recVars, hpVars>>

TrkNext ==
    \/ \E dets \in DetectionLists : update(dets)
    \/ reset

(***************************************************************************)
(* VideoJobManager: the jobs' threads on the one pipeline of the manager.  *)
(* __init__ keeps the pipeline it is given (self.pipeline) and every job   *)
(* thread calls self.pipeline.reset() and self.pipeline.process_frame on   *)
(* it; the pipeline hands the frame's detections to its one tracker, whose *)
(* state is the tracker state above.                                       *)
(***************************************************************************)
MaxPipeJobs == 2

PipeJobs == 1..MaxPipeJobs

\* the detections of one frame of a job's video: one person
FrameDetections == {<<b>> : b \in Boxes}

InitPipe ==
    /\ pj_pc = [j \in PipeJobs |-> "absent"]
    /\ pj_frames = [j \in PipeJobs |-> <<>>]
    /\ pj_ids = [j \in PipeJobs |-> <<>>]

PipeUnchanged == UNCHANGED <<camVars, fanVars, jobVars, recVars, hpVars, lifeVars>>

\* create_job and lines 73-101 of the job's thread: the job is stored under
\* job_lock, its thread starts and opens its input and its output
PJ_Create(j) ==
    /\ pj_pc[j] = "absent"
    /\ pj_pc' = [pj_pc EXCEPT ![j] = "reset"]
    /\ map_access' = Access("jobs", {"job_lock"})
    /\ UNCHANGED <<pj_frames, pj_ids, trkVars>>
    /\ PipeUnchanged

\* line 104: self.pipeline.reset(), which clears the tracker
PJ_Reset(j) ==
    /\ pj_pc[j] = "reset"
    /\ tracker_reset
    /\ pj_pc' = [pj_pc EXCEPT ![j] = "loop"]
    /\ UNCHANGED <<pj_frames, pj_ids>>
    /\ PipeUnchanged

\* lines 111-116: the job reads a frame and self.pipeline.process_frame
\* matches its detections against the tracker
PJ_Frame(j, dets) ==
    /\ pj_pc[j] = "loop"
    /\ tracker_update(dets)
    /\ pj_frames' = [pj_frames EXCEPT ![j] = Append(@, dets)]
    /\ pj_ids' = [pj_ids EXCEPT ![j] = Append(@, last_ids')]
    /\ UNCHANGED pj_pc
    /\ PipeUnchanged

\* lines 112-113, 133-140: the input is exhausted; the job is marked done
\* under job_lock
PJ_End(j) ==
    /\ pj_pc[j] = "loop"
    /\ pj_pc' = [pj_pc EXCEPT ![j] = "done"]
    /\ map_access' = Access("jobs", {"job_lock"})
    /\ UNCHANGED <<pj_frames, pj_ids, trkVars>>
    /\ PipeUnchanged

PipeNext ==
    \/ \E j \in PipeJobs : PJ_Create(j)
    \/ \E j \in PipeJobs : PJ_Reset(j)
    \/ \E j \in PipeJobs : \E dets \in FrameDetections : PJ_Frame(j, dets)
    \/ \E j \in PipeJobs : PJ_End(j)

\* the ids a job's frames get when the job runs alone: reset, then one
\* process_frame per frame
RECURSIVE IdsFrom(_, _, _, _, _)
IdsFrom(frames, i, tks, nid, fc) ==
    IF i > Len(frames) THEN <<>>
    ELSE LET r == UpdateResult(tks, nid, fc + 1, frames[i])
         IN  <<r.ids>> \o IdsFrom(frames, i + 1, r.tracks, r.next_id, fc + 1)

IsolatedIds(frames) == IdsFrom(frames, 1, <<>>, 1, 0)

(***************************************************************************)
(* VideoRecorder and MultiCameraVideoRecorder (services/video_recorder.py) *)
(***************************************************************************)
MaxWrites == 1
MaxClock == 1
MaxCams == 3
MaxLayoutCams == 6

RecIds == {1, 2}
Blank == 0

\* (width, height) of the frames handed to the recorder
FrameSizes == {<<4, 3>>}

\* custom_name arguments, as lists of characters; <<>> is None or ""
CustomNames == {<<>>, <<"a", " ">>}

\* camera_ids arguments of VideoRecorder.start_recording; <<>> is None or []
CameraIdLists == {<<>>, <<1, 2>>}

\* the cameras with a frame in the camera_frames of a write: all of them,
\* or all but one
FrameSets == {(1..MaxCams) \ {c} : c \in 0..MaxCams}

NoLayout == [c \in {} |-> Blank]

NoCall == [op |-> "none", id |-> 0, ok |-> FALSE, sink_ok |-> TRUE, n |-> 0,
           frames |-> 0 - 1, present |-> {}, layout |-> NoLayout]

InitRec ==
    /\ rec_class = "none"
    /\ active_recordings = [r \in {} |-> 0]
    /\ attention_trackers = {}
    /\ clock = 0
    /\ rec_last = NoCall
    /\ rec_parity = 0
    /\ rec_written = [r \in RecIds |-> 0]
    /\ rec_summaries = [r \in RecIds |-> 0]
    /\ rec_started = [r \in RecIds |-> FALSE]
    /\ lay_last = [op |-> "none", n |-> 0, size |-> <<0, 0>>, present |-> {},
                   dims |-> <<0, 0>>, cells |-> <<>>, layout |-> NoLayout]

\* lines 16-28: VideoRecorder.__init__
VideoRecorder_init ==
    /\ rec_class = "none"
    /\ rec_class' = "VideoRecorder"
    /\ UNCHANGED <<pipeVars, lifeVars>>
    /\ UNCHANGED map_access
    /\ UNCHANGED <<camVars, fanVars, jobVars, trkVars, hpVars,
                   active_recordings, attention_trackers, clock, rec_last,
                   rec_parity, rec_written, rec_summaries, rec_started, lay_last>>

\* lines 248-260: MultiCameraVideoRecorder.__init__
MultiCameraVideoRecorder_init ==
    /\ rec_class = "none"
    /\ rec_class' = "MultiCameraVideoRecorder"
    /\ UNCHANGED <<pipeVars, lifeVars>>
    /\ UNCHANGED map_access
    /\ UNCHANGED <<camVars, fanVars, jobVars, trkVars, hpVars,
                   active_recordings, attention_trackers, clock, rec_last,
                   rec_parity, rec_written, rec_summaries, rec_started, lay_last>>

\* the wall clock reaches the next second
Tick ==
    /\ clock < MaxClock
    /\ clock' = clock + 1
    /\ UNCHANGED <<pipeVars, lifeVars>>
    /\ UNCHANGED map_access
    /\ UNCHANGED <<camVars, fanVars, jobVars, trkVars, hpVars,
                   rec_class, active_recordings, attention_trackers, rec_last,
                   rec_parity, rec_written, rec_summaries, rec_started, lay_last>>

\* lines 55, 309: replace(" ", "_").replace("/", "_").replace("\\", "_")
SafeName(name) ==
    [i \in DOMAIN name |-> IF name[i] \in {" ", "/", "\\"} THEN "_" ELSE name[i]]

\* lines 51-69: the file name VideoRecorder.start_recording generates, as
\* its parts (name, kind, camera suffix, timestamp)
FileName(custom_name, camera_ids, ts) ==
    <<IF custom_name # <<>> THEN SafeName(custom_name) ELSE <<"conference">>,
      IF camera_ids # <<>> THEN "multi_camera" ELSE "single_camera",
      camera_ids, ts>>

\* sorted(camera_ids)
RECURSIVE SortedIds(_)
SortedIds(S) ==
    IF S = {} THEN <<>>
    ELSE LET m == CHOOSE x \in S : \A y \in S : x <= y
         IN  <<m>> \o SortedIds(S \ {m})

\* lines 305-312: the file name start_multi_camera_recording generates
MultiFileName(custom_name, camera_ids, ts) ==
    <<IF custom_name # <<>> THEN SafeName(custom_name) ELSE <<"conference">>,
      "multi_camera",
      SortedIds({camera_ids[i] : i \in DOMAIN camera_ids}), ts>>

\* put a session in the map (self.active_recordings[id] = recording_info)
PutRecording(recs, id, info) ==
    [r \in DOMAIN recs \cup {id} |-> IF r = id THEN info ELSE recs[r]]

\* del self.active_recordings[id]
DelRecording(recs, id) == [r \in DOMAIN recs \ {id} |-> recs[r]]

\* the record of a call on the recorder
RecCall(op, id, ok, sink_ok, n, frames, present, layout) ==
    [op |-> op, id |-> id, ok |-> ok, sink_ok |-> sink_ok, n |-> n,
     frames |-> frames, present |-> present, layout |-> layout]

\* lines 47-49, 77-79, 277-279, 321-323: a start is refused for an id that
\* is active and when the video writer did not open
StartRefused_IgnoresSink(id, sink_ok) == id \in DOMAIN active_recordings

StartRefused(id, sink_ok) == id \in DOMAIN active_recordings \/ ~sink_ok

\* lines 46-104: VideoRecorder.start_recording, all under recording_lock;
\* sink_ok is video_writer.isOpened()
start_recording(id, size, camera_ids, custom_name, sink_ok) ==
    /\ rec_class = "VideoRecorder"
    /\ rec_parity' = 1 - rec_parity
    /\ IF StartRefused(id, sink_ok)
       THEN /\ rec_last' = RecCall("start", id, FALSE, sink_ok, 0, 0 - 1, {}, NoLayout)
            /\ UNCHANGED <<active_recordings, attention_trackers, rec_written,
                           rec_summaries, rec_started>>
       ELSE /\ active_recordings' = PutRecording(active_recordings, id,
                   [filepath |-> FileName(custom_name, camera_ids, clock),
                    frame_count |-> 0,
                    width |-> size[1], height |-> size[2],
                    camera_ids |-> camera_ids,
                    is_recording |-> TRUE])
            /\ attention_trackers' = attention_trackers \cup {id}
            /\ rec_last' = RecCall("start", id, TRUE, sink_ok, 0, 0 - 1, {}, NoLayout)
            /\ rec_written' = [rec_written EXCEPT ![id] = 0]
            /\ rec_summaries' = [rec_summaries EXCEPT ![id] = 0]
            /\ rec_started' = [rec_started EXCEPT ![id] = TRUE]
    /\ UNCHANGED <<pipeVars, lifeVars>>
    /\ map_access' = Access("recordings", {"recording_lock"})
    /\ UNCHANGED <<camVars, fanVars, jobVars, trkVars, hpVars,
                   rec_class, clock, lay_last>>

\* int(np.ceil(np.sqrt(n)))
CeilSqrt(n) == CHOOSE c \in 0..n : c * c >= n /\ (c = 0 \/ (c - 1) * (c - 1) < n)

\* int(np.ceil(n / c))
CeilDiv(n, c) == (n + c - 1) \div c

\* lines 292-303: the (layout_width, layout_height) for n cameras of w x h
LayoutDims_OneRow(n, w, h) == <<w * n, h>>

LayoutDims(n, w, h) ==
    IF n = 1 THEN <<w, h>>
    ELSE IF n = 2 THEN <<w * 2, h>>
    ELSE IF n <= 4 THEN <<w * 2, h * 2>>
    ELSE LET cols == CeilSqrt(n)
             rows == CeilDiv(n, cols)
         IN  <<w * cols, h * rows>>

\* lines 409-420: the (x, y) where the frame of the i-th session camera
\* (i from 0) is placed
CellPosition_OneRow(i, n, w, h) == <<i * w, 0>>

CellPosition(i, n, w, h) ==
    IF n = 1 THEN <<0, 0>>
    ELSE IF n = 2 THEN <<i * w, 0>>
    ELSE IF n <= 4 THEN <<(i % 2) * w, (i \div 2) * h>>
    ELSE LET cols == CeilSqrt(n)
         IN  <<(i % cols) * w, (i \div cols) * h>>

\* the top left corners of the frame-sized cells of a layout frame
LayoutCells(lw, lh, w, h) ==
    {<<c * w, r * h>> : c \in 0..((lw \div w) - 1), r \in 0..((lh \div h) - 1)}

\* lines 385-425: _create_layout_frame: a blank layout frame in which the
\* frame of every session camera that is in camera_frames (present) is put
\* at its position; the result gives, per cell, the camera shown or Blank
create_layout_frame_ShowsAll(present, info) ==
    [cell \in LayoutCells(info.layout_width, info.layout_height,
                          info.frame_width, info.frame_height) |->
        LET here == {i \in 1..info.num_cameras :
                       CellPosition(i - 1, info.num_cameras, info.frame_width,
                                    info.frame_height) = cell}
        IN  IF here = {} THEN Blank
            ELSE info.camera_ids[CHOOSE i \in here : \A k \in here : k <= i]]

create_layout_frame(present, info) ==
    [cell \in LayoutCells(info.layout_width, info.layout_height,
                          info.frame_width, info.frame_height) |->
        LET here == {i \in 1..info.num_cameras :
                       /\ info.camera_ids[i] \in present
                       /\ CellPosition(i - 1, info.num_cameras, info.frame_width,
                                       info.frame_height) = cell}
        IN  IF here = {} THEN Blank
            ELSE info.camera_ids[CHOOSE i \in here : \A k \in here : k <= i]]

\* lines 276-346: start_multi_camera_recording, all under recording_lock;
\* camera_frames holds frames of the cameras 1..n, all of one size
start_multi_camera_recording(id, n, size, custom_name, sink_ok) ==
    /\ rec_class = "MultiCameraVideoRecorder"
    /\ rec_parity' = 1 - rec_parity
    /\ IF StartRefused(id, sink_ok) \/ n = 0
       THEN /\ rec_last' = RecCall("start", id, FALSE, sink_ok, n, 0 - 1, {}, NoLayout)
            /\ UNCHANGED <<active_recordings, attention_trackers, rec_written,
                           rec_summaries, rec_started>>
       ELSE /\ active_recordings' = PutRecording(active_recordings, id,
                   [filepath |-> MultiFileName(custom_name, [i \in 1..n |-> i], clock),
                    frame_count |-> 0,
                    layout_width |-> LayoutDims(n, size[1], size[2])[1],
                    layout_height |-> LayoutDims(n, size[1], size[2])[2],
                    frame_width |-> size[1], frame_height |-> size[2],
                    camera_ids |-> [i \in 1..n |-> i],
                    num_cameras |-> n,
                    is_recording |-> TRUE])
            /\ attention_trackers' = attention_trackers \cup {id}
            /\ rec_last' = RecCall("start", id, TRUE, sink_ok, n, 0 - 1, {}, NoLayout)
            /\ rec_written' = [rec_written EXCEPT ![id] = 0]
            /\ rec_summaries' = [rec_summaries EXCEPT ![id] = 0]
            /\ rec_started' = [rec_started EXCEPT ![id] = TRUE]
    /\ UNCHANGED <<pipeVars, lifeVars>>
    /\ map_access' = Access("recordings", {"recording_lock"})
    /\ UNCHANGED <<camVars, fanVars, jobVars, trkVars, hpVars,
                   rec_class, clock, lay_last>>

\* lines 166-172, 364-370: the session a write goes to, if there is one
\* that is recording
Writable(id) ==
    IF id \in DOMAIN active_recordings
    THEN active_recordings[id].is_recording
    ELSE FALSE

\* lines 180, 377: recording_info['frame_count'] += 1
CountFrame_Skip(fc) == fc

CountFrame(fc) == fc + 1

\* lines 154-186: VideoRecorder.write_frame, all under recording_lock
write_frame(id) ==
    /\ rec_class = "VideoRecorder"
    /\ rec_parity' = 1 - rec_parity
    /\ IF ~Writable(id)
       THEN /\ rec_last' = RecCall("write", id, FALSE, TRUE, 0, 0 - 1, {}, NoLayout)
            /\ UNCHANGED <<active_recordings, rec_written>>
       ELSE /\ active_recordings[id].frame_count < MaxWrites
            /\ active_recordings' = [active_recordings EXCEPT
                   ![id].frame_count = CountFrame(@)]
            /\ rec_last' = RecCall("write", id, TRUE, TRUE, 0, 0 - 1, {}, NoLayout)
            /\ rec_written' = [rec_written EXCEPT ![id] = @ + 1]
    /\ UNCHANGED <<pipeVars, lifeVars>>
    /\ map_access' = Access("recordings", {"recording_lock"})
    /\ UNCHANGED <<camVars, fanVars, jobVars, trkVars, hpVars,
                   rec_class, attention_trackers, clock, rec_summaries,
                   rec_started, lay_last>>

\* lines 352-383: write_multi_camera_frame, all under recording_lock;
\* present is the set of cameras that have a frame in camera_frames
write_multi_camera_frame(id, present) ==
    /\ rec_class = "MultiCameraVideoRecorder"
    /\ rec_parity' = 1 - rec_parity
    /\ IF ~Writable(id)
       THEN /\ rec_last' = RecCall("write", id, FALSE, TRUE, 0, 0 - 1, {}, NoLayout)
            /\ UNCHANGED <<active_recordings, rec_written>>
       ELSE /\ active_recordings[id].frame_count < MaxWrites
            /\ active_recordings' = [active_recordings EXCEPT
                   ![id].frame_count = CountFrame(@)]
            /\ rec_last' = RecCall("write", id, TRUE, TRUE, 0, 0 - 1, present,
                                   create_layout_frame(present, active_recordings[id]))
            /\ rec_written' = [rec_written EXCEPT ![id] = @ + 1]
    /\ UNCHANGED <<pipeVars, lifeVars>>
    /\ map_access' = Access("recordings", {"recording_lock"})
    /\ UNCHANGED <<camVars, fanVars, jobVars, trkVars, hpVars,
                   rec_class, attention_trackers, clock, rec_summaries,
                   rec_started, lay_last>>

\* lines 106-152, 427-464: stop_recording of both classes, all under
\* recording_lock; of the summary the frame_count is kept
stop_recording_KeepsEntry(id) ==
    /\ rec_class # "none"
    /\ rec_parity' = 1 - rec_parity
    /\ IF id \notin DOMAIN active_recordings
       THEN /\ rec_last' = RecCall("stop", id, FALSE, TRUE, 0, 0 - 1, {}, NoLayout)
            /\ UNCHANGED <<active_recordings, attention_trackers, rec_summaries>>
       ELSE /\ rec_summaries[id] < 2
            /\ active_recordings' = [active_recordings EXCEPT
                   ![id].is_recording = FALSE]
            /\ attention_trackers' = attention_trackers \ {id}
            /\ rec_last' = RecCall("stop", id, TRUE, TRUE, 0,
                                   active_recordings[id].frame_count, {}, NoLayout)
            /\ rec_summaries' = [rec_summaries EXCEPT ![id] = @ + 1]
    /\ UNCHANGED <<pipeVars, lifeVars>>
    /\ map_access' = Access("recordings", {"recording_lock"})
    /\ UNCHANGED <<camVars, fanVars, jobVars, trkVars, hpVars,
                   rec_class, clock, rec_written, rec_started, lay_last>>

stop_recording(id) ==
    /\ rec_class # "none"
    /\ rec_parity' = 1 - rec_parity
    /\ IF id \notin DOMAIN active_recordings
       THEN /\ rec_last' = RecCall("stop", id, FALSE, TRUE, 0, 0 - 1, {}, NoLayout)
            /\ UNCHANGED <<active_recordings, attention_trackers, rec_summaries,
                           rec_written>>
       ELSE /\ active_recordings' = DelRecording(active_recordings, id)
            /\ attention_trackers' = attention_trackers \ {id}
            /\ rec_last' = RecCall("stop", id, TRUE, TRUE, 0,
                                   active_recordings[id].frame_count, {}, NoLayout)
            /\ rec_summaries' = [rec_summaries EXCEPT ![id] = @ + 1]
            /\ rec_written' = [rec_written EXCEPT ![id] = 0]
    /\ UNCHANGED <<pipeVars, lifeVars>>
    /\ map_access' = Access("recordings", {"recording_lock"})
    /\ UNCHANGED <<camVars, fanVars, jobVars, trkVars, hpVars,
                   rec_class, clock, rec_started, lay_last>>

RecNext ==
    \/ VideoRecorder_init
    \/ MultiCameraVideoRecorder_init
    \/ Tick
    \/ \E id \in RecIds, size \in FrameSizes, cams \in CameraIdLists,
          name \in CustomNames, sink_ok \in BOOLEAN :
          start_recording(id, size, cams, name, sink_ok)
    \/ \E id \in RecIds, n \in 0..MaxCams, size \in FrameSizes,
          name \in {<<"a", " ">>}, sink_ok \in BOOLEAN :
          start_multi_camera_recording(id, n, size, name, sink_ok)
    \/ \E id \in RecIds : write_frame(id)
    \/ \E id \in RecIds, present \in FrameSets :
          write_multi_camera_frame(id, present)
    \/ \E id \in RecIds : stop_recording(id)

\* the layout computations on their own: lines 292-303 for n cameras of one
\* frame size
layout_dims(n, size) ==
    /\ lay_last' = [op |-> "dims", n |-> n, size |-> size, present |-> {},
                    dims |-> LayoutDims(n, size[1], size[2]),
                    cells |-> <<>>, layout |-> NoLayout]
    /\ UNCHANGED <<pipeVars, lifeVars>>
    /\ UNCHANGED map_access
    /\ UNCHANGED <<camVars, fanVars, jobVars, trkVars, hpVars,
                   rec_class, active_recordings, attention_trackers, clock,
                   rec_last, rec_parity, rec_written, rec_summaries, rec_started>>

\* lines 385-425 for a session of n cameras and the frames of present; cells
\* gives the (x, y) of lines 409-420 for every camera placed
layout_frame(n, size, present) ==
    /\ lay_last' =
          [op |-> "frame", n |-> n, size |-> size, present |-> present,
           dims |-> LayoutDims(n, size[1], size[2]),
           cells |-> [i \in present |-> CellPosition(i - 1, n, size[1], size[2])],
           layout |-> create_layout_frame(present,
               [layout_width |-> LayoutDims(n, size[1], size[2])[1],
                layout_height |-> LayoutDims(n, size[1], size[2])[2],
                frame_width |-> size[1], frame_height |-> size[2],
                camera_ids |-> [i \in 1..n |-> i], num_cameras |-> n])]
    /\ UNCHANGED <<pipeVars, lifeVars>>
    /\ UNCHANGED map_access
    /\ UNCHANGED <<camVars, fanVars, jobVars, trkVars, hpVars,
                   rec_class, active_recordings, attention_trackers, clock,
                   rec_last, rec_parity, rec_written, rec_summaries, rec_started>>

LayNext ==
    \/ \E n \in 1..MaxLayoutCams, size \in FrameSizes : layout_dims(n, size)
    \/ \E n \in 1..MaxLayoutCams, size \in FrameSizes :
          \E present \in SUBSET (1..n) : layout_frame(n, size, present)

(***************************************************************************)
(* HeadPoseEstimator (core/head_pose.py)                                   *)
(***************************************************************************)
MaxPoseCalls == 13
MaxConfCalls == 11

yaw_threshold == 25
pitch_threshold == 20
max_history == 12
max_confidence_history == 10
\* min_attention_confidence = 0.7, as a fraction
min_attention_confidence_num == 7
min_attention_confidence_den == 10

Persons == {1, 2}

\* (yaw, pitch) arguments of classify_attention, in degrees
Angles == {<<0 - 25, 5>>, <<15, 20>>, <<27, 2>>, <<13, 23>>, <<100, 0>>}

\* the pose of the k-th call for identity p: every call of an identity
\* carries another pose
Stamp(p, k) == <<3 * k - 20, 10 * p - k>>

NoPoseCall == [op |-> "none", person |-> None, yaw |-> 0, pitch |-> 0,
               smoothed |-> <<0, 0, 1>>, status |-> ""]

\* lines 12-23: HeadPoseEstimator.__init__
InitHp ==
    /\ pose_history = [p \in {} |-> <<>>]
    /\ attention_confidence = [p \in {} |-> <<>>]
    /\ hp_last = NoPoseCall
    /\ hp_calls = [smooth |-> [p \in Persons |-> <<>>],
                   classify |-> [p \in Persons |-> <<>>]]

\* the list of an identity in a history dict, [] when it has none yet
\* (lines 220-221, 159-160)
HistoryOf(hist, p) == IF p \in DOMAIN hist THEN hist[p] ELSE <<>>

\* hist[p] = list
PutHistory(hist, p, list) ==
    [q \in DOMAIN hist \cup {p} |-> IF q = p THEN list ELSE hist[q]]

\* lines 224-228, 162-166: append, then pop(0) when longer than limit
AppendBounded_DropsNewest(list, x, limit) ==
    IF Len(list) + 1 > limit THEN list ELSE Append(list, x)

AppendBounded(list, x, limit) ==
    IF Len(list) + 1 > limit THEN Tail(Append(list, x)) ELSE Append(list, x)

\* sum(list)
RECURSIVE SumOf(_)
SumOf(list) == IF list = <<>> THEN 0 ELSE list[1] + SumOf(Tail(list))

\* sum(pose[c] * weight for pose, weight in zip(poses, range(1, n + 1)))
RECURSIVE WeightedSum(_, _, _)
WeightedSum(poses, c, n) ==
    IF n = 0 THEN 0 ELSE WeightedSum(poses, c, n - 1) + poses[n][c] * n

\* sum(range(1, n + 1))
RECURSIVE TotalWeight(_)
TotalWeight(n) == IF n = 0 THEN 0 ELSE TotalWeight(n - 1) + n

\* lines 230-242: the smoothed pose as (yaw sum, pitch sum, divisor)
Smoothed_Unweighted(poses, yaw, pitch) ==
    IF Len(poses) = 1 THEN <<yaw, pitch, 1>>
    ELSE <<SumOf([i \in 1..Len(poses) |-> poses[i][1]]),
           SumOf([i \in 1..Len(poses) |-> poses[i][2]]),
           Len(poses)>>

Smoothed(poses, yaw, pitch) ==
    IF Len(poses) = 1 THEN <<yaw, pitch, 1>>
    ELSE <<WeightedSum(poses, 1, Len(poses)),
           WeightedSum(poses, 2, Len(poses)),
           TotalWeight(Len(poses))>>

\* lines 208-242: smooth_pose(person_id, yaw, pitch)
smooth_pose(person_id, yaw, pitch) ==
    /\ Len(hp_calls.smooth[person_id]) < MaxPoseCalls
    /\ \E poses \in {AppendBounded(HistoryOf(pose_history, person_id),
                                   <<yaw, pitch>>, max_history)} :
          /\ pose_history' = PutHistory(pose_history, person_id, poses)
          /\ hp_last' = [op |-> "smooth", person |-> person_id, yaw |-> yaw,
                         pitch |-> pitch, smoothed |-> Smoothed(poses, yaw, pitch),
                         status |-> ""]
    /\ hp_calls' = [hp_calls EXCEPT !.smooth[person_id] = Append(@, <<yaw, pitch>>)]
    /\ UNCHANGED <<pipeVars, lifeVars>>
    /\ UNCHANGED map_access
    /\ UNCHANGED <<camVars, fanVars, jobVars, trkVars, recVars, attention_confidence>>

\* lines 151-152: max(0, 1.0 - abs(angle) / 90.0), times 90
AngleConfidence(angle) == MaxOf(0, 90 - Abs(angle))

\* line 155: yaw_confidence * 0.6 + pitch_confidence * 0.4, times 900
AttentionConfidence(yaw, pitch) ==
    AngleConfidence(yaw) * 6 + AngleConfidence(pitch) * 4

\* lines 169, 171, 176: avg_confidence >= self.min_attention_confidence,
\* for the scores (times 900) the average is taken of
ConfidentEnough(scores) ==
    SumOf(scores) * min_attention_confidence_den
        >= min_attention_confidence_num * 900 * Len(scores)

\* lines 174-179: the status for the angles and the scores averaged
Classify_YawExclusive(yaw, pitch, scores) ==
    IF /\ Abs(yaw) < yaw_threshold
       /\ Abs(pitch) <= pitch_threshold
       /\ ConfidentEnough(scores)
    THEN "Looking at camera"
    ELSE "Not looking at camera"

Classify(yaw, pitch, scores) ==
    IF /\ Abs(yaw) <= yaw_threshold
       /\ Abs(pitch) <= pitch_threshold
       /\ ConfidentEnough(scores)
    THEN "Looking at camera"
    ELSE "Not looking at camera"

\* lines 138-179: classify_attention(yaw, pitch, person_id)
classify_attention(yaw, pitch, person_id) ==
    IF person_id # None
    THEN /\ Len(hp_calls.classify[person_id]) < MaxConfCalls
         /\ \E scores \in {AppendBounded(HistoryOf(attention_confidence, person_id),
                                         AttentionConfidence(yaw, pitch),
                                         max_confidence_history)} :
               /\ attention_confidence' =
                     PutHistory(attention_confidence, person_id, scores)
               /\ hp_last' = [op |-> "classify", person |-> person_id, yaw |-> yaw,
                              pitch |-> pitch, smoothed |-> <<0, 0, 1>>,
                              status |-> Classify(yaw, pitch, scores)]
         /\ hp_calls' = [hp_calls EXCEPT !.classify[person_id] =
                            Append(@, AttentionConfidence(yaw, pitch))]
         /\ UNCHANGED <<pipeVars, lifeVars>>
         /\ UNCHANGED map_access
         /\ UNCHANGED <<camVars, fanVars, jobVars, trkVars, recVars, pose_history>>
    ELSE /\ hp_last' = [op |-> "classify", person |-> None, yaw |-> yaw,
                        pitch |-> pitch, smoothed |-> <<0, 0, 1>>,
                        status |-> Classify(yaw, pitch,
                                            <<AttentionConfidence(yaw, pitch)>>)]
         /\ UNCHANGED <<pipeVars, lifeVars>>
         /\ UNCHANGED map_access
         /\ UNCHANGED <<camVars, fanVars, jobVars, trkVars, recVars, pose_history,
                        attention_confidence, hp_calls>>

\* classify_attention for one tracked identity and for no identity, with
\* any of the angles
ConfNext ==
    \E a \in Angles, p \in {1, None} : classify_attention(a[1], a[2], p)

\* smooth_pose and classify_attention for two identities, each call with
\* the pose of its arrival number
HistNext ==
    \/ \E p \in Persons :
          \E a \in {Stamp(p, Len(hp_calls.smooth[p]) + 1)} :
             smooth_pose(p, a[1], a[2])
    \/ \E p \in Persons :
          \E a \in {Stamp(p, Len(hp_calls.classify[p]) + 1)} :
             classify_attention(a[1], a[2], p)

(***************************************************************************)
(* Specifications                                                          *)
(***************************************************************************)
Init ==
    /\ InitCam /\ InitFan /\ InitJob /\ InitTrk /\ InitRec /\ InitHp
    /\ InitPipe /\ InitLife /\ InitAccess

SpecCam == Init /\ [][CamNext]_vars

\* the worker thread is a thread of its own that the interpreter keeps
\* scheduling
FairSpecCam == Init /\ [][CamNext]_vars /\ \A w \in Workers : WF_vars(WorkerStep(w))

SpecLife == Init /\ [][LifeNext]_vars

SpecFan == Init /\ [][FanNext]_vars

SpecJob == Init /\ [][JobNext]_vars

\* the thread create_job starts for a job is scheduled again and again
\* until it returns
FairSpecJob == Init /\ [][JobNext]_vars /\ \A j \in JobIds : WF_vars(JobThread(j))

SpecTrk == Init /\ [][TrkNext]_vars

SpecPipe == Init /\ [][PipeNext]_vars

SpecRec == Init /\ [][RecNext]_vars

SpecLayout == Init /\ [][LayNext]_vars

SpecConf == Init /\ [][ConfNext]_vars

SpecHist == Init /\ [][HistNext]_vars

(***************************************************************************)
(* Properties of IsolatedCameraProcessor (checked under SpecCam)           *)
(***************************************************************************)

\* C1 (as stated): once two frames have been submitted, only the second is
\* ever passed to the pipeline - the first frame is never processed.
C1_OnlySecondEverProcessed == (nextFrame > 2) => (1 \notin passed)

\* C1 (amended): a frame that is still in the pending slot when a later
\* submit_frame arrives is never dequeued and never passed to the pipeline;
\* the first of two submitted frames is processed only when the worker
\* dequeued it before the second submit.
C1_SupersededNeverProcessed == superseded \cap (dequeued \cup passed) = {}

C1_Witness == 1 \in superseded /\ 2 \in returned /\ latest_frame = 2

\* C2: in every reachable state the pending slot holds at most one frame and
\* the result slot holds at most one (annotated_frame, stats) pair, both
\* halves present or both absent and both made from the same frame.
C2_SlotsHoldAtMostOne ==
    /\ Len(frame_queue) <= 1
    /\ latest_frame = latest_stats

C2_Witness ==
    /\ Len(frame_queue) = 1
    /\ latest_frame # None
    /\ nextFrame > MaxFrames
    /\ \E c \in Callers : cpc[c] = "stop_clear_queue"

\* C3: after stop_processing has returned (and no start_processing since),
\* get_latest_result returns (None, None).
C3_StopLeavesResultEmpty == stopReturned => get_latest_result = <<None, None>>

\* C4: a frame the worker has dequeued is passed to the pipeline whatever
\* is_processing becomes meanwhile, and its pipeline call runs to its end; a
\* worker that reads is_processing false at its loop test exits, and an exited
\* worker never dequeues or processes again.
C4_DequeuedCompletesNoneAfterStop ==
    /\ [](\A f \in dequeued :
            \/ f \in passed
            \/ \E w \in Workers : wpc[w] = "call" /\ frame_data[w] = f)
    /\ [](\A f \in passed :
            \/ f \in returned \cup raised
            \/ \E w \in Workers : wpc[w] = "process" /\ frame_data[w] = f)
    /\ [][\A w \in Workers :
            (wpc[w] = "test" /\ ~is_processing /\ wpc'[w] # "test")
                => wpc'[w] = "exited"]_vars
    /\ [][\A w \in Workers : wpc[w] = "exited" => wpc'[w] = "exited"]_vars

C4_Witness ==
    /\ \E f \in inflightAtStop : f \in returned /\ latest_frame = f
    /\ \E w \in Workers : wpc[w] = "exited"
    /\ \A w \in Workers : ~is_alive(w)
    /\ frame_queue # <<>>

\* C5: the step in which the pipeline raises changes neither the result slot
\* nor the pending slot and sends the worker back to its loop test; no frame
\* is passed to the pipeline twice, and the result slot never holds the result
\* of a frame whose processing raised.
C5_FailureLeavesResultUntouched ==
    /\ [][raised' # raised =>
            /\ latest_frame' = latest_frame
            /\ latest_stats' = latest_stats
            /\ frame_queue' = frame_queue
            /\ \A w \in Workers : wpc'[w] # wpc[w] => wpc'[w] = "test"]_vars
    /\ [](\A f \in Frames : calls[f] <= 1)
    /\ [](latest_frame \notin raised /\ latest_stats \notin raised)

C5_Witness ==
    /\ 1 \in raised
    /\ 2 \in returned
    /\ latest_frame = 2

\* C6: while a worker is between dequeuing a frame and storing its result
\* (the pipeline is running) it holds neither queue_lock nor result_lock; each
\* lock is only ever held inside the short pop / store sections, so
\* submit_frame and get_latest_result never wait for a frame's processing.
C6_NoLockHeldWhileProcessing ==
    /\ \A w \in Workers :
          wpc[w] \in {"call", "process", "acq_r"}
              => queue_lock # w /\ result_lock # w
    /\ queue_lock # None => wpc[queue_lock] = "pop"
    /\ result_lock # None => wpc[result_lock] = "write"

C6_Witness ==
    \E w \in Workers :
        /\ wpc[w] = "process"
        /\ frame_queue # <<>>
        /\ frame_data[w] < Head(frame_queue)
        /\ queue_lock = None
        /\ result_lock = None
(***************************************************************************)
(* Properties of ParallelProcessor (checked under SpecFan)                 *)
(***************************************************************************)

\* C7: the map process_pending_frames returns has exactly the camera ids it
\* took from the stage as keys, one entry each; the entry of a camera whose
\* frame raised is (its original frame, all-zero stats) and every other entry
\* is the pipeline's (annotated frame, stats) for that camera's frame.
C7_DrainReturnsEveryCamera ==
    \A d \in Drainers :
        dpc[d] = "idle" =>
            /\ Keys(ret[d]) = Keys(frames_to_process[d])
            /\ Cardinality(ret[d]) = Cardinality(frames_to_process[d])
            /\ \A e \in frames_to_process[d] :
                  <<e[1], IF e[2] \in pp_raised
                          THEN <<Original(e[2]), ZeroStats>>
                          ELSE <<Annotated(e[2]), Stats(e[2])>> >> \in ret[d]

C7_Witness ==
    \E d \in Drainers :
        /\ dpc[d] = "idle"
        /\ Keys(ret[d]) = Cameras
        /\ \E e \in ret[d] : e[2][2] = ZeroStats
        /\ \E e \in ret[d] : e[2][2] # ZeroStats

AllowedJobSteps ==
    {<<"pending", "running">>, <<"running", "done">>, <<"running", "error">>}

\* C9: a job enters the job map as pending, and every later change of its
\* state is pending -> running, running -> done or running -> error; so it
\* never skips running, never moves back, and done and error are final.
C9_JobStateMonotone ==
    [][\A j \in JobIds :
          /\ (j \notin jobs /\ j \in jobs') => job_state'[j] = "pending"
          /\ (j \in jobs /\ j \in jobs' /\ job_state'[j] # job_state[j])
                => <<job_state[j], job_state'[j]>> \in AllowedJobSteps]_vars

C9_Witness ==
    \E j \in jobs :
        /\ job_state[j] = "done"
        /\ jpc[j] = "finished"
        /\ progress[j] = 100

\* C10: between two successive observations of a job by get_job_status its
\* progress never decreases.
C10_ProgressNeverDecreases ==
    [][\A j \in JobIds :
          (j \in jobs /\ j \in jobs')
              => get_job_status(j).progress' >= get_job_status(j).progress]_vars

\* C11: in every reachable state the progress of every job is an integer
\* between 0 and 100, whatever total the input reports and however many
\* frames are read from it.
C11_ProgressInRange ==
    \A j \in jobs : progress[j] \in 0..100

\* C12: a job whose input and output opened and whose frames were all
\* processed without failure ends as done with progress 100, and a job in
\* state done has progress 100.
C12_CleanRunEndsDone ==
    \A j \in jobs :
        /\ (jpc[j] = "finished" /\ fault[j] = "none")
              => (job_state[j] = "done" /\ progress[j] = 100)
        /\ job_state[j] = "done" => progress[j] = 100

\* C13: a job that fails (input or output cannot open, or a frame fails)
\* ends in state error with its error message set; from the failure to the
\* end its progress stays what was last reported; a job whose input could
\* not open ends with progress 0.
C13_FailureFreezesProgress ==
    [][\A j \in JobIds :
          (j \in jobs /\ j \in jobs') =>
              /\ (jpc'[j] = "mark_error" \/ jpc[j] = "mark_error")
                    => progress'[j] = progress[j]
              /\ (fault'[j] # "none" /\ jpc'[j] = "finished")
                    => (job_state'[j] = "error" /\ job_error'[j])
              /\ (fault'[j] = "input" /\ jpc'[j] = "finished")
                    => progress'[j] = 0]_vars

C13_Witness ==
    \E j \in jobs :
        /\ fault[j] = "frame"
        /\ job_state[j] = "error"
        /\ job_error[j]
        /\ progress[j] > 0

\* C14: cleanup_old_jobs removes a job only if it is done or error and older
\* than max_age, so never a pending or running one, and a cleanup step
\* leaves every job that does not meet both conditions as it was.
C14_CleanupRemovesOnlyOldFinished ==
    [][\A j \in JobIds :
          /\ (j \in jobs /\ j \notin jobs')
                => (old[j] /\ job_state[j] \in {"done", "error"})
          /\ (/\ j \in jobs
              /\ ~(old[j] /\ job_state[j] \in {"done", "error"})
              /\ (clpc' # clpc \/ jobs_to_remove' # jobs_to_remove))
                => /\ j \in jobs'
                   /\ job_state'[j] = job_state[j]
                   /\ progress'[j] = progress[j]
                   /\ job_error'[j] = job_error[j]
                   /\ completed_at'[j] = completed_at[j]]_vars

C14_Witness ==
    \E j \in JobIds :
        /\ j < next_job
        /\ j \notin jobs
        /\ jpc[j] = "finished"
        /\ old[j]

(***************************************************************************)
(* Properties of PersonTracker (checked under SpecTrk)                     *)
(***************************************************************************)

\* C15: update with a non-empty detection list on a tracker that holds no
\* tracks gives the detections pairwise distinct ids that strictly increase
\* in input order, and creates exactly one track per detection.
C15_FreshIdsIncrease ==
    [][(updates_done' = updates_done + 1 /\ DOMAIN tracks = {}
            /\ last_dets' # <<>>)
         => /\ Len(last_ids') = Len(last_dets')
            /\ \A i, k \in DOMAIN last_ids' :
                  i < k => (0 < last_ids'[i] /\ last_ids'[i] < last_ids'[k])
            /\ DOMAIN tracks' = {last_ids'[i] : i \in DOMAIN last_ids'}
            /\ Cardinality(DOMAIN tracks') = Len(last_dets')
            /\ \A i \in DOMAIN last_ids' :
                  tracks'[last_ids'[i]].bbox = last_dets'[i]]_vars

C15_Witness ==
    /\ updates_done = 1
    /\ Len(last_dets) = 2
    /\ last_ids = <<1, 2>>
    /\ DOMAIN tracks = {1, 2}

C17_OneIdPerDetection ==
    [][updates_done' = updates_done + 1
         => /\ Len(last_ids') = Len(last_dets')
            /\ \A i \in DOMAIN last_ids' : last_ids'[i] # None
            /\ \A i, k \in DOMAIN last_ids' :
                  i # k => last_ids'[i] # last_ids'[k]]_vars

C17_Witness ==
    /\ updates_done = 2
    /\ tr_frame_count = 2
    /\ last_dets = <<Box(1), Box(2)>>
    /\ last_ids = <<1, 2>>
    /\ ids_since_reset = {1, 2}
    /\ tracks[1].last_seen = 2
    /\ tracks[2].last_seen = 2
    /\ tracks[2].disappeared = 1

\* C18: when update returns, every track matched to a detection in that
\* call has disappeared count 0 and the bbox of the detection it matched.
C18_MatchedTrackRefreshed ==
    [][updates_done' = updates_done + 1
         => \A i \in DOMAIN last_ids' :
               last_ids'[i] \in DOMAIN tracks
                  => /\ last_ids'[i] \in DOMAIN tracks'
                     /\ tracks'[last_ids'[i]].disappeared = 0
                     /\ tracks'[last_ids'[i]].bbox = last_dets'[i]]_vars

C18_Witness ==
    /\ updates_done = 3
    /\ tr_frame_count = 3
    /\ ids_since_reset = {1}
    /\ last_dets = <<Box(2)>>
    /\ last_ids = <<1>>
    /\ tracks[1] = [bbox |-> Box(2), disappeared |-> 0, last_seen |-> 3]

\* C19: a track, however created, that goes unmatched for max_disappeared
\* consecutive updates after the one that created or last matched it is
\* still in the tracker, and one that goes unmatched for max_disappeared + 1
\* is removed.
C19_RemovedAfterLimit ==
    [][updates_done' = updates_done + 1
         => \A x \in (DOMAIN tracks) \ {last_ids'[i] : i \in DOMAIN last_ids'} :
               /\ missed[x] + 1 <= max_disappeared => x \in DOMAIN tracks'
               /\ missed[x] + 1 > max_disappeared => x \notin DOMAIN tracks']_vars

\* C20 as stated: a detection whose IoU with the bbox a track had after the
\* previous update is above the threshold receives that track's id, whatever
\* other tracks and detections are present.
C20_OverlapKeepsId ==
    [][updates_done' = updates_done + 1
         => \A i \in DOMAIN last_dets' : \A t \in DOMAIN tracks :
               LET iou == calculate_iou(last_dets'[i], tracks[t].bbox)
               IN  iou[1] * iou_threshold_den > iou_threshold_num * iou[2]
                      => last_ids'[i] = t]_vars

\* C20, amended: such a detection receives that track's id when no other
\* detection of the update has IoU above the threshold with that track and
\* the detection has IoU above the threshold with no other track.
C20_OnlyCandidateKeepsId ==
    [][updates_done' = updates_done + 1
         => \A i \in DOMAIN last_dets' : \A t \in DOMAIN tracks :
               LET Above(k, u) ==
                       LET iou == calculate_iou(last_dets'[k], tracks[u].bbox)
                       IN  iou[1] * iou_threshold_den > iou_threshold_num * iou[2]
               IN  (/\ Above(i, t)
                    /\ \A k \in DOMAIN last_dets' : k # i => ~Above(k, t)
                    /\ \A u \in DOMAIN tracks : u # t => ~Above(i, u))
                      => last_ids'[i] = t]_vars

C20_Witness ==
    /\ updates_done = 2
    /\ tr_frame_count = 2
    /\ last_dets = <<Box(3), Box(1)>>
    /\ last_ids = <<2, 1>>
    /\ ids_since_reset = {1, 2}
    /\ tracks[1].bbox = Box(1)
    /\ tracks[2].bbox = Box(3)

\* C21: an update call with an empty detection list adds one to the
\* disappeared count of every existing track, removes exactly the tracks
\* whose count then exceeds max_disappeared, creates no track, assigns no id
\* and returns an empty list.
C21_EmptyUpdateAgesTracks ==
    [][(updates_done' = updates_done + 1 /\ last_dets' = <<>>)
         => /\ last_ids' = <<>>
            /\ last_new' = {}
            /\ next_id' = next_id
            /\ DOMAIN tracks' =
                  {x \in DOMAIN tracks : tracks[x].disappeared + 1 <= max_disappeared}
            /\ \A x \in DOMAIN tracks' :
                  tracks'[x] = [bbox |-> tracks[x].bbox,
                                disappeared |-> tracks[x].disappeared + 1,
                                last_seen |-> tracks[x].last_seen]]_vars

C21_Witness ==
    /\ updates_done = 3
    /\ tr_frame_count = 3
    /\ last_dets = <<>>
    /\ ids_since_reset = {1, 2}
    /\ DOMAIN tracks = {1}
    /\ tracks[1].disappeared = 1
    /\ tracks[1].last_seen = 2

\* C22: stop_recording for an id without an active session returns None and
\* changes nothing; for an active session it returns the summary and ends
\* the session, so that of all the stop calls of a session, in any order,
\* exactly one returns a summary and every other returns None.
C22_OneSummaryPerSession ==
    [][/\ (rec_parity' # rec_parity /\ rec_last'.op = "stop")
            => IF rec_last'.id \in DOMAIN active_recordings
               THEN /\ rec_last'.ok
                    /\ rec_last'.id \notin DOMAIN active_recordings'
               ELSE /\ ~rec_last'.ok
                    /\ active_recordings' = active_recordings
                    /\ attention_trackers' = attention_trackers
       /\ \A id \in RecIds :
             /\ rec_summaries'[id] <= 1
             /\ id \in DOMAIN active_recordings' => rec_summaries'[id] = 0
             /\ (rec_started'[id] /\ id \notin DOMAIN active_recordings')
                   => rec_summaries'[id] = 1]_vars

C22_Witness ==
    /\ rec_last.op = "stop" /\ rec_last.id = 1 /\ ~rec_last.ok
    /\ rec_started[1] /\ rec_summaries[1] = 1
    /\ 1 \notin DOMAIN active_recordings
    /\ 2 \in DOMAIN active_recordings

\* C23: the frame_count of every session is the number of its writes that
\* returned True; a write to an id without a session returns False and
\* changes no session; the frame_count of the summary stop returns is the
\* number of the session's writes that returned True.
C23_FrameCountCountsWrites ==
    [][/\ (rec_parity' # rec_parity /\ rec_last'.op = "write")
            => /\ rec_last'.ok <=> rec_last'.id \in DOMAIN active_recordings
               /\ ~rec_last'.ok => active_recordings' = active_recordings
               /\ \A id \in DOMAIN active_recordings :
                     rec_written'[id] = rec_written[id]
                        + (IF id = rec_last'.id /\ rec_last'.ok THEN 1 ELSE 0)
       /\ (rec_parity' # rec_parity /\ rec_last'.op = "stop" /\ rec_last'.ok)
            => rec_last'.frames = rec_written[rec_last'.id]
       /\ \A id \in DOMAIN active_recordings' :
             active_recordings'[id].frame_count = rec_written'[id]]_vars

C23_Witness ==
    /\ rec_last.op = "stop" /\ rec_last.ok /\ rec_last.id = 2
    /\ rec_last.frames = 1
    /\ rec_written[1] = 1
    /\ 1 \in DOMAIN active_recordings
    /\ active_recordings[1].frame_count = 1

\* C24 as stated: a start returns False exactly when the id has an active
\* session or the sink cannot be opened, then nothing changes; otherwise
\* it returns True and the id is active with frame_count 0.
C24_StartFailsOnlyOnActiveOrSink ==
    [][(rec_parity' # rec_parity /\ rec_last'.op = "start")
          => IF rec_last'.id \in DOMAIN active_recordings \/ ~rec_last'.sink_ok
             THEN /\ ~rec_last'.ok
                  /\ active_recordings' = active_recordings
                  /\ attention_trackers' = attention_trackers
             ELSE /\ rec_last'.ok
                  /\ rec_last'.id \in DOMAIN active_recordings'
                  /\ active_recordings'[rec_last'.id].frame_count = 0]_vars

\* C24: a start returns False when the id has an active session, when the
\* sink cannot be opened and, for the multi-camera recorder, when no camera
\* frame is supplied, and then the active sessions, their frame counts and
\* the accumulators are unchanged; otherwise it returns True and the id is
\* active with frame_count 0.
C24_StartFailsLeaveState ==
    [][(rec_parity' # rec_parity /\ rec_last'.op = "start")
          => IF \/ rec_last'.id \in DOMAIN active_recordings
                \/ ~rec_last'.sink_ok
                \/ (rec_class = "MultiCameraVideoRecorder" /\ rec_last'.n = 0)
             THEN /\ ~rec_last'.ok
                  /\ active_recordings' = active_recordings
                  /\ attention_trackers' = attention_trackers
             ELSE /\ rec_last'.ok
                  /\ rec_last'.id \in DOMAIN active_recordings'
                  /\ active_recordings'[rec_last'.id].frame_count = 0
                  /\ rec_last'.id \in attention_trackers']_vars

C24_Witness ==
    /\ rec_last.op = "start" /\ ~rec_last.ok /\ ~rec_last.sink_ok
    /\ rec_last.id = 2 /\ 2 \notin DOMAIN active_recordings
    /\ 1 \in DOMAIN active_recordings
    /\ active_recordings[1].frame_count = 1
    /\ attention_trackers = {1}

\* C25 as stated: the layout for n cameras of w x h is w x h for n = 1,
\* 2w x h for n = 2, 2w x 2h for n = 3 and 4, and a square grid of
\* ceil(sqrt(n)) columns and rows for n > 4.
C25_SquareGridAboveFour ==
    lay_last.op = "dims" =>
        LET n == lay_last.n
            w == lay_last.size[1]
            h == lay_last.size[2]
            c == CHOOSE k \in 1..n : k * k >= n /\ (k - 1) * (k - 1) < n
        IN  lay_last.dims = IF n = 1 THEN <<w, h>>
                            ELSE IF n = 2 THEN <<2 * w, h>>
                            ELSE IF n \in {3, 4} THEN <<2 * w, 2 * h>>
                            ELSE <<c * w, c * h>>

\* C25: the layout for n cameras of w x h is w x h for n = 1, 2w x h for
\* n = 2, 2w x 2h for n = 3 and 4, and for n > 4 a grid of ceil(sqrt(n))
\* columns and ceil(n / ceil(sqrt(n))) rows.
C25_GridOfNeededRows ==
    lay_last.op = "dims" =>
        LET n == lay_last.n
            w == lay_last.size[1]
            h == lay_last.size[2]
            c == CHOOSE k \in 1..n : k * k >= n /\ (k - 1) * (k - 1) < n
            r == CHOOSE k \in 1..n : k * c >= n /\ (k - 1) * c < n
        IN  lay_last.dims = IF n = 1 THEN <<w, h>>
                            ELSE IF n = 2 THEN <<2 * w, h>>
                            ELSE IF n \in {3, 4} THEN <<2 * w, 2 * h>>
                            ELSE <<c * w, r * h>>

C25_Witness ==
    /\ lay_last.op = "dims" /\ lay_last.n = 5
    /\ lay_last.size = <<4, 3>> /\ lay_last.dims = <<12, 6>>

\* C26: a multi-camera write to an active session returns True and adds one
\* to frame_count whichever cameras have a frame; in the written frame the
\* cell of a session camera without a frame is blank, the cell of a session
\* camera with a frame shows it, and every cell that is no session camera's
\* is blank.
C26_AbsentCameraLeavesBlankCell ==
    [][(/\ rec_parity' # rec_parity
        /\ rec_last'.op = "write"
        /\ rec_class = "MultiCameraVideoRecorder"
        /\ rec_last'.id \in DOMAIN active_recordings)
          => LET info == active_recordings[rec_last'.id]
                 w == info.frame_width
                 h == info.frame_height
                 cellOf(i) == IF info.num_cameras = 1 THEN <<0, 0>>
                              ELSE IF info.num_cameras = 2 THEN <<(i - 1) * w, 0>>
                              ELSE <<((i - 1) % 2) * w, ((i - 1) \div 2) * h>>
             IN  /\ rec_last'.ok
                 /\ active_recordings'[rec_last'.id].frame_count = info.frame_count + 1
                 /\ \A i \in 1..info.num_cameras :
                       rec_last'.layout[cellOf(i)] =
                          IF info.camera_ids[i] \in rec_last'.present
                          THEN info.camera_ids[i] ELSE Blank
                 /\ \A cell \in DOMAIN rec_last'.layout :
                       (\A i \in 1..info.num_cameras : cellOf(i) # cell)
                          => rec_last'.layout[cell] = Blank
                 /\ DOMAIN rec_last'.layout =
                       {<<x * w, y * h>> :
                           x \in 0..(IF info.num_cameras = 1 THEN 0 ELSE 1),
                           y \in 0..(IF info.num_cameras <= 2 THEN 0 ELSE 1)}]_vars

C26_Witness ==
    /\ rec_class = "MultiCameraVideoRecorder"
    /\ rec_last.op = "write" /\ rec_last.ok /\ rec_last.id = 1
    /\ rec_last.present = {1, 3}
    /\ 1 \in DOMAIN active_recordings
    /\ active_recordings[1].num_cameras = 3
    /\ active_recordings[1].frame_count = 1
    /\ rec_last.layout = (<<0, 0>> :> 1) @@ (<<4, 0>> :> Blank)
                            @@ (<<0, 3>> :> 3) @@ (<<4, 3>> :> Blank)

\* C27: no two sessions that are active at the same time have the same
\* output file path.
C27_DistinctFilePaths ==
    \A a \in DOMAIN active_recordings : \A b \in DOMAIN active_recordings :
        a # b => active_recordings[a].filepath # active_recordings[b].filepath

\* C28: classify_attention(yaw, pitch, id) returns "Looking at camera"
\* exactly when |yaw| <= yaw_threshold, |pitch| <= pitch_threshold and the
\* mean of the confidence scores retained for the identity, the score of
\* this call among them, is at least 0.7; without an identity the mean is
\* the score of this call.  Scores are kept times 900.
C28_LookingIffWithinThresholds ==
    hp_last.op = "classify" =>
        LET scores == IF hp_last.person = None
                      THEN <<(IF Abs(hp_last.yaw) >= 90 THEN 0
                                 ELSE 6 * (90 - Abs(hp_last.yaw)))
                             + (IF Abs(hp_last.pitch) >= 90 THEN 0
                                   ELSE 4 * (90 - Abs(hp_last.pitch)))>>
                      ELSE attention_confidence[hp_last.person]
        IN  /\ hp_last.status \in {"Looking at camera", "Not looking at camera"}
            /\ hp_last.status = "Looking at camera"
                  <=> /\ hp_last.yaw <= 25 /\ hp_last.yaw >= 0 - 25
                      /\ hp_last.pitch <= 20 /\ hp_last.pitch >= 0 - 20
                      /\ 10 * SumOf(scores) >= 7 * 900 * Len(scores)

C28_Witness ==
    /\ hp_last.op = "classify" /\ hp_last.person = 1
    /\ hp_last.yaw = 0 - 25 /\ hp_last.pitch = 5
    /\ hp_last.status = "Looking at camera"
    /\ attention_confidence[1] = <<360, 730, 730, 730>>

C30_HistoriesHoldMostRecent ==
    [][/\ \A p \in Persons :
             LET given == hp_calls'.smooth[p]
                 held == IF p \in DOMAIN pose_history' THEN pose_history'[p] ELSE <<>>
             IN  /\ Len(held) <= 12
                 /\ Len(held) = IF Len(given) <= 12 THEN Len(given) ELSE 12
                 /\ held = SubSeq(given, Len(given) - Len(held) + 1, Len(given))
       /\ \A p \in Persons :
             LET given == hp_calls'.classify[p]
                 held == IF p \in DOMAIN attention_confidence'
                         THEN attention_confidence'[p] ELSE <<>>
             IN  /\ Len(held) <= 10
                 /\ Len(held) = IF Len(given) <= 10 THEN Len(given) ELSE 10
                 /\ held = SubSeq(given, Len(given) - Len(held) + 1, Len(given))
       /\ \A q \in Persons \ {hp_last'.person} :
             /\ q \in DOMAIN pose_history' <=> q \in DOMAIN pose_history
             /\ q \in DOMAIN pose_history => pose_history'[q] = pose_history[q]
             /\ q \in DOMAIN attention_confidence' <=> q \in DOMAIN attention_confidence
             /\ q \in DOMAIN attention_confidence
                   => attention_confidence'[q] = attention_confidence[q]]_vars

C30_Witness ==
    /\ Len(hp_calls.smooth[1]) = 13 /\ Len(pose_history[1]) = 12
    /\ pose_history[1][1] = Stamp(1, 2) /\ pose_history[1][12] = Stamp(1, 13)
    /\ Len(hp_calls.classify[2]) = 11 /\ Len(attention_confidence[2]) = 10
    /\ Len(hp_calls.smooth[2]) = 1 /\ pose_history[2] = <<Stamp(2, 1)>>

\* C33: in an update with tracks and detections, the pairs matched are
\* candidates (IoU above iou_threshold), and a candidate is matched exactly
\* when no matched pair that is taken before it (higher score; at equal
\* score lower detection index, then lower track id, the insertion order)
\* has its detection or its track.  This fixes the assignment.
C33_GreedyByScoreThenOrder ==
    [][(updates_done' = updates_done + 1 /\ DOMAIN tracks # {} /\ last_dets' # <<>>)
          => \A dets \in {last_dets'} :
             \A cand \in {[i \in 1..Len(dets) |->
                            {t \in DOMAIN tracks :
                               \E iou \in {calculate_iou(dets[i], tracks[t].bbox)} :
                                  iou[1] * iou_threshold_den > iou_threshold_num * iou[2]}]} :
             \A sc \in {[i \in 1..Len(dets) |->
                          [t \in cand[i] |-> Score(dets[i], tracks[t].bbox)]]} :
             \A M \in {{i \in 1..Len(dets) : last_ids'[i] \notin last_new'}} :
                 /\ \A i \in M : last_ids'[i] \in cand[i]
                 /\ \A i \in 1..Len(dets) : \A t \in cand[i] :
                       (i \in M /\ last_ids'[i] = t) <=> ~\E j \in M :
                          /\ j = i \/ last_ids'[j] = t
                          /\ \/ ScoreGreater(sc[j][last_ids'[j]], sc[i][t])
                             \/ /\ ~ScoreGreater(sc[i][t], sc[j][last_ids'[j]])
                                /\ j < i \/ (j = i /\ last_ids'[j] < t)]_vars

C33_Witness ==
    /\ updates_done = 2
    /\ last_dets = <<Box(2)>>
    /\ last_ids = <<1>>
    /\ DOMAIN tracks = {1, 2}
    /\ tracks[1] = [bbox |-> Box(2), disappeared |-> 0, last_seen |-> 2]
    /\ tracks[2] = [bbox |-> Box(2), disappeared |-> 1, last_seen |-> 1]

\* C37: every track an update call creates has disappeared 0 when the call
\* returns, and every id the call returns is that of a track in the
\* tracker.
C37_NewTracksStartAtZero ==
    [][updates_done' = updates_done + 1
         => /\ \A x \in last_new' :
                  x \in DOMAIN tracks' /\ tracks'[x].disappeared = 0
            /\ \A i \in DOMAIN last_ids' : last_ids'[i] \in DOMAIN tracks']_vars

\* C38: in every state between update calls no track has a disappeared
\* count above max_disappeared, so get_disappeared_track_ids lists nothing.
C38_NoTrackPastLimit ==
    /\ \A x \in DOMAIN tracks : tracks[x].disappeared <= max_disappeared
    /\ get_disappeared_track_ids(tracks) = {}

C38_Witness ==
    /\ updates_done = 3 /\ tr_frame_count = 3
    /\ last_dets = <<>>
    /\ ids_since_reset = {1}
    /\ DOMAIN tracks = {}

\* C40: for n cameras, the frame of every camera placed lies inside the
\* layout dimensions computed at start, and no two cameras of the session
\* are placed at the same cell.
C40_CellsInsideAndDistinct ==
    lay_last.op = "frame" =>
        LET w == lay_last.size[1]
            h == lay_last.size[2]
            cells == lay_last.cells
        IN  /\ DOMAIN cells = lay_last.present
            /\ \A i \in DOMAIN cells :
                  /\ cells[i][1] >= 0 /\ cells[i][1] + w <= lay_last.dims[1]
                  /\ cells[i][2] >= 0 /\ cells[i][2] + h <= lay_last.dims[2]
            /\ \A i \in DOMAIN cells : \A j \in DOMAIN cells :
                  i # j => cells[i] # cells[j]

C40_Witness ==
    /\ lay_last.op = "frame" /\ lay_last.n = 5 /\ lay_last.present = 1..5
    /\ lay_last.dims = <<12, 6>>
    /\ lay_last.cells[5] = <<4, 3>>
    /\ lay_last.cells[3] = <<8, 0>>

\* C35: with an input of finitely many frames and a background thread that
\* keeps being scheduled, every job that is pending or running is later
\* done or error.
C35_EveryJobTerminates ==
    \A j \in JobIds :
        (job_state[j] \in {"pending", "running"}) ~> (job_state[j] \in {"done", "error"})

C35_Witness ==
    /\ job_state[1] = "done" /\ jpc[1] = "finished"
    /\ frame_count[1] = 2 /\ total_frames[1] = 2

\* C39: whenever a job is done or error, its input source and its output
\* sink are released.
C39_TerminalJobsReleased ==
    \A j \in JobIds :
        job_state[j] \in {"done", "error"} => ~cap_open[j] /\ ~out_open[j]

(***************************************************************************)
(* C34: for one IsolatedCameraProcessor, under any interleaving of         *)
(* start_processing and stop_processing calls, at most one thread is       *)
(* executing the worker loop at any time.                                  *)
(***************************************************************************)
C34_AtMostOneWorkerLoop ==
    Cardinality({l \in LoopThreads : loop_alive(l)}) <= 1

(***************************************************************************)
(* C32: every access to the track map, the job map and the recording map   *)
(* is made by a thread that holds that map's own lock, and no thread holds *)
(* two of the locks at once.                                               *)
(***************************************************************************)
C32_MapsAccessedUnderOwnLock ==
    /\ map_access.map = "tracks" => map_access.locks # {}
    /\ map_access.map = "jobs" => "job_lock" \in map_access.locks
    /\ map_access.map = "recordings" => "recording_lock" \in map_access.locks
    /\ Cardinality(map_access.locks) <= 1

(***************************************************************************)
(* C31: jobs are isolated: the ids a job's frames are given are the ids    *)
(* they get when the job runs alone, whatever other jobs are created and   *)
(* run on the same VideoJobManager meanwhile.                              *)
(***************************************************************************)
C31_JobsAreIsolated ==
    \A j \in PipeJobs : pj_ids[j] = IsolatedIds(pj_frames[j])

(***************************************************************************)
(* C36: while the camera actor stays running, a submitted frame that no    *)
(* later submit overwrites is eventually dequeued, and a frame whose       *)
(* processing succeeded eventually is the value get_latest_result returns  *)
(* (the worker being scheduled fairly).                                    *)
(***************************************************************************)
C36_SubmittedFrameGetsResult ==
    \A f \in Frames :
       /\ (ActorRunning /\ f \in Range(frame_queue))
             ~> (f \in dequeued \/ f \in superseded \/ ~ActorRunning)
       /\ (ActorRunning /\ \E w \in Workers :
               wpc[w] \in {"acq_r", "write"} /\ frame_data[w] = f)
             ~> (get_latest_result = <<f, f>> \/ ~ActorRunning)

C36_Witness ==
    /\ ActorRunning
    /\ 1 \in dequeued
    /\ 1 \notin superseded
    /\ get_latest_result = <<1, 1>>
    /\ frame_queue = <<2>>

====
